---- MODULE Spec2Model ----
(***************************************************************************)
(* MW-NFD: the strategy layer (daemon/fw/strategy.{hpp,cpp}) and the       *)
(* per-worker forwarding pipelines it drives.                              *)
(*                                                                         *)
(* Strategy::sendInterest, sendData, sendDataToAll, sendNacks and the      *)
(* default triggers are translated from strategy.cpp.  The forwarder       *)
(* pipelines, pit::Entry and the I/O-thread dispatch are not part of the   *)
(* source tree at hand; they follow sections 4.1-4.5 and 4.9 of the        *)
(* specification.  ETRI_NFD_ORG_ARCH is taken as undefined (multi-worker   *)
(* architecture); ETRI_DUAL_CS and ETRI_PITTOKEN_HASH are build options    *)
(* and are chosen in Init.                                                 *)
(***************************************************************************)
EXTENDS Integers, Sequences, FiniteSets, TLC

VARIABLES
  cfg,      \* build options and dispatch configuration, fixed after Init
  now,      \* time::steady_clock::now()
  faceUp,   \* face state: TRUE = up, FALSE = down
  pit,      \* pit[w][k]: the PIT entry of worker w for key k = <<name, canBePrefix>>
  cs,       \* cs[w]: names of the Data held by worker w's Content Store
  calls,    \* trigger/action/pipeline invocations made by the last handler, in order
  steps,    \* number of packets, strategy calls and face events handled so far
  fib,      \* fib[prefix]: the next hops <<face, cost>> of the FIB entry for
            \* prefix; DOMAIN fib is the set of prefixes with a FIB entry
  registry, \* Strategy::getRegistry(): the registered strategy names
  store,    \* one Content Store with its policy: limits, tables and LRU queues
  lastUse,  \* for each stored Data, when it was last inserted, refreshed or hit
  link,     \* the internal transport pair and the global event loop
  stream    \* a StreamTransportImpl, its socket and its asynchronous operations

\* the tables the forwarding pipelines do not write
tables == <<fib, registry, store, lastUse, link, stream>>

vars == <<cfg, now, faceUp, pit, cs, calls, steps, fib, registry, store, lastUse, link,
          stream>>

(***************************************************************************)
(* Bounds                                                                  *)
(***************************************************************************)
NumWorkers == 2
MaxTime == 1
MaxSteps == 3
MaxPrefixLen == 2

Workers == 0 .. (NumWorkers - 1)
Faces == {1, 2, 3}
Nonces == {1, 2}
Lifetimes == {1, 2}

\* Names are sequences of components; /b and /b/a
Names == {<<2>>, <<2, 1>>}
Keys == Names \X BOOLEAN

\* FIB prefixes: the root /, /a, /b and /b/a
FibNames == {<<>>, <<1>>, <<2>>, <<2, 1>>}

\* every second face is an ad-hoc link, the others are point-to-point
IsAdHoc(f) == f % 2 = 0

Max(a, b) == IF a >= b THEN a ELSE b
Min(a, b) == IF a <= b THEN a ELSE b

IsPrefixOf(p, n) == Len(p) <= Len(n) /\ SubSeq(n, 1, Len(p)) = p

\* Interest::matchesData restricted to name and CanBePrefix
MatchesData(k, dname) == k[1] = dname \/ (k[2] /\ IsPrefixOf(k[1], dname))

(***************************************************************************)
(* PIT tokens.  <<>> is "no lp::PitToken tag".  <<0, f>> is the opaque     *)
(* token chosen by the downstream node behind face f.  <<1, w, c, h>> is   *)
(* ST_PIT_TOKEN {workerId, CanBePrefix, hashValue} built by sendInterest.  *)
(***************************************************************************)
NoTok == <<>>
DownTok(f) == <<0, f>>

\* the name-tree node's hash of the name, a stand-in for the 64-bit hash (the
\* names used are too short to wrap)
RECURSIVE NameHash(_)
NameHash(n) ==
  IF n = <<>> THEN 0
  ELSE NameHash(SubSeq(n, 1, Len(n) - 1)) * 31 + n[Len(n)]

StPitToken(workerId, canBePrefix, name) ==
  << 1,
     workerId,
     IF cfg.dualCs THEN (IF canBePrefix THEN 1 ELSE 0) ELSE 0,
     IF cfg.pitTokenHash THEN NameHash(name) ELSE 0 >>

IsFwTok(t) == Len(t) = 4 /\ t[1] = 1

(***************************************************************************)
(* pit::Entry                                                              *)
(***************************************************************************)
NoEntry ==
  [present |-> FALSE, workerId |-> 0, inRecords |-> <<>>, outRecords |-> <<>>,
   expiry |-> 0, satisfied |-> FALSE]

\* index of the first record for face f, 0 if none (std::find_if over the list)
RECURSIVE FindFrom(_, _, _)
FindFrom(recs, f, i) ==
  IF i > Len(recs) THEN 0
  ELSE IF recs[i].face = f THEN i
  ELSE FindFrom(recs, f, i + 1)

FindRecord(recs, f) == FindFrom(recs, f, 1)

RemoveAt(recs, i) ==
  [j \in 1 .. (Len(recs) - 1) |-> IF j < i THEN recs[j] ELSE recs[j + 1]]

\* pit::Entry::deleteInRecord / deleteOutRecord: erase the record found, if any
DeleteRecord(recs, f) ==
  LET i == FindRecord(recs, f) IN IF i = 0 THEN recs ELSE RemoveAt(recs, i)

\* a list that gains a record on every call
InsertAlways(recs, rec) == Append(recs, rec)

\* pit::Entry::insertOrUpdateInRecord / insertOrUpdateOutRecord
InsertOrUpdate(recs, rec) ==
  LET i == FindRecord(recs, rec.face) IN
    IF i = 0 THEN Append(recs, rec) ELSE [recs EXCEPT ![i] = rec]

RECURSIVE MaxExpiry(_)
MaxExpiry(recs) ==
  IF recs = <<>> THEN 0 ELSE Max(Head(recs).expiry, MaxExpiry(Tail(recs)))

RecordFaces(recs) == {recs[i].face : i \in 1 .. Len(recs)}

\* the records of a list that belong to face f
RecordsOf(recs, f) == {recs[i] : i \in {j \in 1 .. Len(recs) : recs[j].face = f}}

CountFace(recs, f) == Cardinality({i \in 1 .. Len(recs) : recs[i].face = f})


(***************************************************************************)
(* Invocation log.  Every handler starts a new log; each trigger, action   *)
(* and pipeline call appends one record describing the call as made:       *)
(*   wid    worker (for sendInterest: the worker id stamped on the entry)  *)
(*   tok    PitToken on the packet handed on                               *)
(*   pre    sendInterest: tag of the Interest passed in, before the call   *)
(*          sendData: tag the in-record's Interest had when received       *)
(*   post   sendInterest: tag of the Interest passed in, after the call    *)
(*   flag   sendData/onOutgoingNack: egress had an in-record at the call   *)
(*          afterReceiveInterest: the in-record was refreshed, not created *)
(*          afterReceiveNack: the out-record exists and holds the header   *)
(*   ok     send actions: the packet was sent (not dropped)                *)
(*          afterReceiveNack: the Nack's nonce equals the out-record's     *)
(*   sat    the entry was satisfied at the call                            *)
(*   faces  sendDataToAll: faces with an in-record at the call             *)
(*   live   sendDataToAll: faces whose in-record had not expired           *)
(*          sendNacks: faces with an in-record at the call                 *)
(*   hop    dispatchInterest: the HopLimit, <<>> if the Interest has none  *)
(*   arg    accessors and registry functions: the arguments                *)
(*   ret    accessors and registry functions: the value returned           *)
(***************************************************************************)
NoKey == <<<<>>, FALSE>>

Rec(op, wid, k, f) ==
  [op |-> op, wid |-> wid, key |-> k, face |-> f, nonce |-> 0, tok |-> NoTok,
   pre |-> NoTok, post |-> NoTok, flag |-> FALSE, ok |-> TRUE, sat |-> FALSE,
   faces |-> {}, live |-> {}, hop |-> <<>>, arg |-> <<>>, ret |-> <<>>]

\* a handler works on [pit: the worker's table, dtag: the PitToken tag of the
\* Data object in hand, calls: the log]
Log(s, c) == [s EXCEPT !.calls = Append(@, c)]

(***************************************************************************)
(* Outgoing pipelines (specification 4.2, 4.4, 4.5)                        *)
(***************************************************************************)
\* Forwarder::onOutgoingInterest: null if the face is down, else insert or
\* refresh the out-record (sentTok: the PitToken the Interest went out with)
onOutgoingInterest(s, k, egress, nonce, tok) ==
  IF ~faceUp[egress] THEN s
  ELSE [s EXCEPT !.pit[k].outRecords =
          InsertOrUpdate(@, [face |-> egress, nonce |-> nonce, nacked |-> FALSE,
                             sentTok |-> tok])]

\* Forwarder::onOutgoingData: drop if the face is down, else send
onOutgoingData(egress) == faceUp[egress]

\* onOutgoingNack that clears the in-records instead of deleting one
onOutgoingNackClearsInRecords(s, w, k, egress) ==
  LET e == s.pit[k]
      had == FindRecord(e.inRecords, egress) # 0
      s1 == IF had THEN [s EXCEPT !.pit[k].inRecords = <<>>] ELSE s
  IN Log(s1, [Rec("onOutgoingNack", w, k, egress) EXCEPT
                !.flag = had, !.ok = had, !.sat = e.satisfied])

\* Forwarder::onOutgoingNack: needs an in-record for egress, which is then deleted
onOutgoingNack(s, w, k, egress) ==
  LET e == s.pit[k]
      had == FindRecord(e.inRecords, egress) # 0
      s1 == IF had THEN [s EXCEPT !.pit[k].inRecords = DeleteRecord(@, egress)] ELSE s
  IN Log(s1, [Rec("onOutgoingNack", w, k, egress) EXCEPT
                !.flag = had, !.ok = had, !.sat = e.satisfied])

(***************************************************************************)
(* Strategy actions (strategy.cpp)                                         *)
(***************************************************************************)
\* sendInterest that leaves workerId as the zero-filled buffer has it
sendInterestNoWorkerId(s, w, k, egress, from) ==
  LET e == s.pit[k]
      i == FindRecord(e.inRecords, from)
      interest == e.inRecords[i]
      token == StPitToken(0, k[2], k[1])
  IN IF interest.tok # NoTok
     THEN Log(onOutgoingInterest(s, k, egress, interest.nonce, token),
              [Rec("sendInterest", e.workerId, k, egress) EXCEPT
                 !.nonce = interest.nonce, !.tok = token, !.pre = interest.tok,
                 !.post = interest.tok, !.ok = faceUp[egress], !.sat = e.satisfied])
     ELSE LET after == IF cfg.dualCs \/ cfg.pitTokenHash THEN token ELSE NoTok
              s1 == [s EXCEPT !.pit[k].inRecords[i].tok = after]
          IN Log(onOutgoingInterest(s1, k, egress, interest.nonce, after),
                 [Rec("sendInterest", e.workerId, k, egress) EXCEPT
                    !.nonce = interest.nonce, !.tok = after, !.pre = NoTok,
                    !.post = after, !.ok = faceUp[egress], !.sat = e.satisfied])

\* Strategy::sendInterest; the Interest passed is the object that the
\* in-record of face `from` refers to
sendInterest(s, w, k, egress, from) ==
  LET e == s.pit[k]
      i == FindRecord(e.inRecords, from)
      interest == e.inRecords[i]
      token == StPitToken(e.workerId, k[2], k[1])
  IN IF interest.tok # NoTok
     THEN \* interest2: a copy whose tag is replaced; the original keeps its tag
          Log(onOutgoingInterest(s, k, egress, interest.nonce, token),
              [Rec("sendInterest", e.workerId, k, egress) EXCEPT
                 !.nonce = interest.nonce, !.tok = token, !.pre = interest.tok,
                 !.post = interest.tok, !.ok = faceUp[egress], !.sat = e.satisfied])
     ELSE \* the tag is set on the Interest passed in, in the builds with
          \* ETRI_DUAL_CS or ETRI_PITTOKEN_HASH
          LET after == IF cfg.dualCs \/ cfg.pitTokenHash THEN token ELSE NoTok
              s1 == [s EXCEPT !.pit[k].inRecords[i].tok = after]
          IN Log(onOutgoingInterest(s1, k, egress, interest.nonce, after),
                 [Rec("sendInterest", e.workerId, k, egress) EXCEPT
                    !.nonce = interest.nonce, !.tok = after, !.pre = NoTok,
                    !.post = after, !.ok = faceUp[egress], !.sat = e.satisfied])

\* sendData that returns before deleteInRecord when the face is down
sendDataKeepOnDrop(s, w, k, egress) ==
  LET e == s.pit[k]
      i == FindRecord(e.inRecords, egress)
      pitToken == IF i # 0 THEN e.inRecords[i].tok ELSE NoTok
      received == IF i # 0 THEN e.inRecords[i].rtok ELSE NoTok
      s1 == IF faceUp[egress]
            THEN [s EXCEPT !.pit[k].inRecords = DeleteRecord(@, egress),
                           !.dtag = pitToken]
            ELSE s
  IN Log(s1, [Rec("sendData", w, k, egress) EXCEPT
                !.tok = pitToken, !.pre = received, !.flag = (i # 0),
                !.ok = onOutgoingData(egress), !.sat = e.satisfied])

\* Strategy::sendData
sendData(s, w, k, egress) ==
  LET e == s.pit[k]
      i == FindRecord(e.inRecords, egress)
      pitToken == IF i # 0 THEN e.inRecords[i].tok ELSE NoTok
      received == IF i # 0 THEN e.inRecords[i].rtok ELSE NoTok
      \* deleteInRecord, then setTag(pitToken) or removeTag on the Data itself
      s1 == [s EXCEPT !.pit[k].inRecords = DeleteRecord(@, egress),
                      !.dtag = pitToken]
  IN Log(s1, [Rec("sendData", w, k, egress) EXCEPT
                !.tok = pitToken, !.pre = received, !.flag = (i # 0),
                !.ok = onOutgoingData(egress), !.sat = e.satisfied])

\* the loop of sendDataToAll over std::set<Face*> pendingDownstreams
RECURSIVE sendDataEach(_, _, _, _)
sendDataEach(s, w, k, pending) ==
  IF pending = {} THEN s
  ELSE LET f == CHOOSE x \in pending : \A y \in pending : x <= y
       IN sendDataEach(sendData(s, w, k, f), w, k, pending \ {f})

\* the in-records that have not expired
LiveFaces(recs) == {recs[i].face : i \in {j \in 1 .. Len(recs) : recs[j].expiry > now}}

\* sendDataToAll that skips inFace also when it is ad-hoc
sendDataToAllNoAdHoc(s, w, k, inFace) ==
  LET recs == s.pit[k].inRecords
      pendingDownstreams ==
        {recs[i].face : i \in {j \in 1 .. Len(recs) :
            recs[j].expiry > now /\ recs[j].face # inFace}}
      s1 == Log(s, [Rec("sendDataToAll", w, k, inFace) EXCEPT
                      !.tok = s.dtag, !.sat = s.pit[k].satisfied,
                      !.faces = RecordFaces(recs), !.live = LiveFaces(recs)])
  IN sendDataEach(s1, w, k, pendingDownstreams)

\* sendDataToAll that takes the faces from the out-records
sendDataToAllUpstreams(s, w, k, inFace) ==
  LET recs == s.pit[k].inRecords
      pendingDownstreams == RecordFaces(s.pit[k].outRecords)
      s1 == Log(s, [Rec("sendDataToAll", w, k, inFace) EXCEPT
                      !.tok = s.dtag, !.sat = s.pit[k].satisfied,
                      !.faces = RecordFaces(recs), !.live = LiveFaces(recs)])
  IN sendDataEach(s1, w, k, pendingDownstreams)

\* Strategy::sendDataToAll
sendDataToAll(s, w, k, inFace) ==
  LET recs == s.pit[k].inRecords
      pendingDownstreams ==
        {recs[i].face : i \in {j \in 1 .. Len(recs) :
            /\ recs[j].expiry > now
            /\ ~(recs[j].face = inFace /\ ~IsAdHoc(recs[j].face))}}
      s1 == Log(s, [Rec("sendDataToAll", w, k, inFace) EXCEPT
                      !.tok = s.dtag, !.sat = s.pit[k].satisfied,
                      !.faces = RecordFaces(recs), !.live = LiveFaces(recs)])
  IN sendDataEach(s1, w, k, pendingDownstreams)

\* Strategy::sendNack
sendNack(s, w, k, egress) == onOutgoingNack(s, w, k, egress)

RECURSIVE sendNackEach(_, _, _, _)
sendNackEach(s, w, k, downstreams) ==
  IF downstreams = {} THEN s
  ELSE LET f == CHOOSE x \in downstreams : \A y \in downstreams : x <= y
       IN sendNackEach(sendNack(s, w, k, f), w, k, downstreams \ {f})

\* sendNacks that does not erase the excluded faces from downstreams
sendNacksNoExcept(s, w, k, exceptFaces) ==
  LET downstreams == RecordFaces(s.pit[k].inRecords)
      s1 == Log(s, [Rec("sendNacks", w, k, 0) EXCEPT
                      !.sat = s.pit[k].satisfied, !.faces = exceptFaces,
                      !.live = RecordFaces(s.pit[k].inRecords)])
  IN sendNackEach(s1, w, k, downstreams)

\* Strategy::sendNacks
sendNacks(s, w, k, exceptFaces) ==
  LET downstreams == RecordFaces(s.pit[k].inRecords) \ exceptFaces
      s1 == Log(s, [Rec("sendNacks", w, k, 0) EXCEPT
                      !.sat = s.pit[k].satisfied, !.faces = exceptFaces,
                      !.live = RecordFaces(s.pit[k].inRecords)])
  IN sendNackEach(s1, w, k, downstreams)

\* Strategy::setExpiryTimer: the entry is to be erased after duration
setExpiryTimer(s, k, duration) == [s EXCEPT !.pit[k].expiry = now + duration]

\* rejectPendingInterest that leaves the expiry timer as it is
rejectPendingInterestKeepsTimer(s, w, k) ==
  Log(s, [Rec("rejectPendingInterest", w, k, 0) EXCEPT
            !.flag = (s.pit[k].outRecords # <<>>), !.sat = s.pit[k].satisfied])

\* Strategy::rejectPendingInterest: setExpiryTimer(pitEntry, 0_ms)
rejectPendingInterest(s, w, k) ==
  Log(setExpiryTimer(s, k, 0),
      [Rec("rejectPendingInterest", w, k, 0) EXCEPT
         !.flag = (s.pit[k].outRecords # <<>>), !.sat = s.pit[k].satisfied])

(***************************************************************************)
(* Default triggers (strategy.cpp)                                         *)
(***************************************************************************)
\* Strategy::beforeSatisfyInterest: logs only
beforeSatisfyInterest(s, w, k, ingress) ==
  Log(s, [Rec("beforeSatisfyInterest", w, k, ingress) EXCEPT
            !.tok = s.dtag, !.sat = s.pit[k].satisfied])

\* Strategy::afterContentStoreHit
afterContentStoreHit(s, w, k, ingress) ==
  sendData(Log(s, [Rec("afterContentStoreHit", w, k, ingress) EXCEPT
                     !.tok = s.dtag, !.sat = s.pit[k].satisfied]),
           w, k, ingress)

\* afterReceiveData that sends before it invokes beforeSatisfyInterest
afterReceiveDataSendFirst(s, w, k, ingress) ==
  beforeSatisfyInterest(sendDataToAll(s, w, k, ingress), w, k, ingress)

\* Strategy::afterReceiveData
afterReceiveData(s, w, k, ingress) ==
  sendDataToAll(beforeSatisfyInterest(s, w, k, ingress), w, k, ingress)

\* Strategy::afterReceiveNack: logs only
afterReceiveNack(s, w, k, ingress, nonce) ==
  LET e == s.pit[k]
      i == FindRecord(e.outRecords, ingress)
  IN Log(s, [Rec("afterReceiveNack", w, k, ingress) EXCEPT
               !.nonce = nonce,
               !.flag = (i # 0 /\ e.outRecords[i].nacked),
               !.ok = (i # 0 /\ e.outRecords[i].nonce = nonce),
               !.sat = e.satisfied])

\* the loop of a strategy that forwards the Interest to each face of ups
RECURSIVE sendInterestEach(_, _, _, _, _)
sendInterestEach(s, w, k, ingress, ups) ==
  IF ups = {} THEN s
  ELSE LET f == CHOOSE x \in ups : \A y \in ups : x <= y
       IN sendInterestEach(sendInterest(s, w, k, f, ingress), w, k, ingress, ups \ {f})

\* Strategy::afterReceiveInterest is pure virtual: the strategy decides whether
\* and where to forward; here it invokes sendInterest now for each face of ups
afterReceiveInterest(s, w, k, ingress, tok, refreshed, ups) ==
  sendInterestEach(
    Log(s, [Rec("afterReceiveInterest", w, k, ingress) EXCEPT
              !.tok = tok, !.flag = refreshed, !.sat = s.pit[k].satisfied,
              !.faces = ups]),
    w, k, ingress, ups)


(***************************************************************************)
(* Multi-worker dispatch (specification 4.9)                               *)
(***************************************************************************)
\* the configured prefix of the name; the whole name if it is shorter
DispatchPrefix(name) == SubSeq(name, 1, Min(cfg.prefixLen, Len(name)))

\* Interest: worker id = hash(configured prefix of the name) mod N
DispatchInterest(name) == NameHash(DispatchPrefix(name)) % NumWorkers

\* Data / Nack: the PitToken's workerId if the packet carries one, else by name
DispatchData(name, tok) ==
  IF tok # NoTok THEN tok[2] ELSE NameHash(DispatchPrefix(name)) % NumWorkers

(***************************************************************************)
(* Incoming pipelines (specification 4.1, 4.3, 4.5)                        *)
(***************************************************************************)
\* loop detection that does not look at the face of the in-record
IsLoopedAnyFace(e, ingress, nonce) ==
  \E i \in 1 .. Len(e.inRecords) : e.inRecords[i].nonce = nonce

\* loop: the nonce appears in an in-record of the entry for a different face
IsLooped(e, ingress, nonce) ==
  \E i \in 1 .. Len(e.inRecords) :
    e.inRecords[i].face # ingress /\ e.inRecords[i].nonce = nonce

\* find or create the entry; a new entry is stamped with the worker id
FindOrInsert(s, w, k) ==
  IF s.pit[k].present THEN s
  ELSE [s EXCEPT !.pit[k] = [NoEntry EXCEPT !.present = TRUE, !.workerId = w]]

\* in-record update that arms the timer with the arriving Interest's lifetime
UpdateInRecordLast(s, k, ingress, nonce, tok, lifetime) ==
  LET recs == InsertOrUpdate(s.pit[k].inRecords,
                [face |-> ingress, nonce |-> nonce, tok |-> tok, rtok |-> tok,
                 expiry |-> now + lifetime])
  IN [s EXCEPT !.pit[k].inRecords = recs, !.pit[k].expiry = now + lifetime]

\* step 4: insert or refresh the in-record, entry expiry = max over in-records
UpdateInRecord(s, k, ingress, nonce, tok, lifetime) ==
  LET recs == InsertOrUpdate(s.pit[k].inRecords,
                [face |-> ingress, nonce |-> nonce, tok |-> tok, rtok |-> tok,
                 expiry |-> now + lifetime])
  IN [s EXCEPT !.pit[k].inRecords = recs, !.pit[k].expiry = MaxExpiry(recs)]

\* Forwarder::onContentStoreHit: the entry is satisfied and scheduled for erase
onContentStoreHit(s, w, k, ingress) ==
  afterContentStoreHit(
    [s EXCEPT !.pit[k].satisfied = TRUE, !.pit[k].expiry = now], w, k, ingress)

\* Forwarder::onIncomingInterest; csHit: the Content Store found a match
onIncomingInterest(s, w, ingress, k, nonce, tok, lifetime, csHit, ups) ==
  IF s.pit[k].present /\ IsLooped(s.pit[k], ingress, nonce)
  THEN Log(s, [Rec("nackDuplicate", w, k, ingress) EXCEPT
                  !.nonce = nonce, !.sat = s.pit[k].satisfied])
  ELSE LET s1 == FindOrInsert(s, w, k)
           refreshed == FindRecord(s1.pit[k].inRecords, ingress) # 0
       IN IF s1.pit[k].inRecords = <<>> /\ csHit
          THEN onContentStoreHit(s1, w, k, ingress)
          ELSE afterReceiveInterest(UpdateInRecord(s1, k, ingress, nonce, tok, lifetime),
                                    w, k, ingress, tok, refreshed, ups)

\* HopLimit of an Interest: absent, or one value
HopLimits == {<<>>, <<0>>, <<1>>}

\* faces whose scope is local; the other faces are non-local
LocalFaces == {1}

\* scope: a non-local name on a local face, or a local name on a non-local face
ViolatesScope(ingress, localName) == (ingress \in LocalFaces) # localName

\* Forwarder::onIncomingInterest from its first step: the violation checks on
\* HopLimit and scope drop the Interest before the PIT is touched
onIncomingInterestChecked(s, w, ingress, k, nonce, tok, lifetime, csHit, ups, hopLimit, localName) ==
  IF hopLimit = <<0>>
  THEN Log(s, [Rec("dropHopLimit", w, k, ingress) EXCEPT !.nonce = nonce, !.ok = FALSE])
  ELSE IF ViolatesScope(ingress, localName)
  THEN Log(s, [Rec("dropScope", w, k, ingress) EXCEPT !.nonce = nonce, !.ok = FALSE])
  ELSE onIncomingInterest(s, w, ingress, k, nonce, tok, lifetime, csHit, ups)

PitMatches(table, dname) == {k \in Keys : table[k].present /\ MatchesData(k, dname)}

\* cancel the expiry timer and schedule the erase; the entry is now satisfied
Satisfy(s, k) == [s EXCEPT !.pit[k].satisfied = TRUE, !.pit[k].expiry = now]

RECURSIVE SatisfyEach(_, _, _, _)
SatisfyEach(s, w, ingress, ks) ==
  IF ks = {} THEN s
  ELSE LET k == CHOOSE x \in ks : \A y \in ks : Len(x[1]) <= Len(y[1])
       IN SatisfyEach(beforeSatisfyInterest(Satisfy(s, k), w, k, ingress),
                      w, ingress, ks \ {k})

RECURSIVE SendToDownstreamsEach(_, _, _, _)
SendToDownstreamsEach(s, w, ingress, ks) ==
  IF ks = {} THEN s
  ELSE LET k == CHOOSE x \in ks : \A y \in ks : Len(x[1]) <= Len(y[1])
       IN SendToDownstreamsEach(sendDataToAll(s, w, k, ingress), w, ingress, ks \ {k})

\* Forwarder::onIncomingData
onIncomingData(s, w, ingress, dname) ==
  LET matches == PitMatches(s.pit, dname)
  IN IF matches = {}
     THEN Log(s, [Rec("unsolicited", w, NoKey, ingress) EXCEPT
                     !.tok = s.dtag, !.ok = FALSE])
     ELSE IF Cardinality(matches) = 1
     THEN LET k == CHOOSE x \in matches : TRUE
          IN afterReceiveData(Satisfy(s, k), w, k, ingress)
     ELSE SendToDownstreamsEach(SatisfyEach(s, w, ingress, matches), w, ingress, matches)

\* onIncomingNack that does not compare the nonces
onIncomingNackAnyNonce(s, w, ingress, k, nonce) ==
  LET e == s.pit[k]
      i == FindRecord(e.outRecords, ingress)
  IN IF ~e.present \/ i = 0
     THEN Log(s, [Rec("dropNack", w, k, ingress) EXCEPT
                     !.nonce = nonce, !.ok = FALSE, !.sat = e.satisfied])
     ELSE afterReceiveNack([s EXCEPT !.pit[k].outRecords[i].nacked = TRUE],
                           w, k, ingress, nonce)

\* Forwarder::onIncomingNack: the Nack is a response to the last Interest
\* forwarded to that upstream (out-record exists, Nonce matches); the header is
\* recorded in the out-record before the trigger; the entry may be satisfied
onIncomingNack(s, w, ingress, k, nonce) ==
  LET e == s.pit[k]
      i == FindRecord(e.outRecords, ingress)
  IN IF ~e.present \/ i = 0 \/ e.outRecords[i].nonce # nonce
     THEN Log(s, [Rec("dropNack", w, k, ingress) EXCEPT
                     !.nonce = nonce, !.ok = FALSE, !.sat = e.satisfied])
     ELSE afterReceiveNack([s EXCEPT !.pit[k].outRecords[i].nacked = TRUE],
                           w, k, ingress, nonce)


(***************************************************************************)
(* Handlers.  A worker's handler runs to completion on the worker's own    *)
(* tables (single-threaded event loop).                                    *)
(***************************************************************************)
Begin(w, tok, head) == [pit |-> pit[w], dtag |-> tok, calls |-> <<head>>]

Commit(w, s) ==
  /\ pit' = [pit EXCEPT ![w] = s.pit]
  /\ calls' = s.calls
  /\ steps' = steps + 1

\* PitTokens an upstream behind face f can echo: those of the Interests of the
\* entries ks last sent to f
EchoTokens(f, ks) ==
  {o.sentTok : o \in UNION {{pit[w][k].outRecords[i] :
                               i \in {j \in 1 .. Len(pit[w][k].outRecords) :
                                        pit[w][k].outRecords[j].face = f}} :
                            w \in Workers, k \in ks}}

\* an Interest arrives on face f: I/O thread dispatch, then the worker's pipeline
ReceiveInterest(f, k, nonce, hasTok, lifetime, ups) ==
  LET w == DispatchInterest(k[1])
      tok == IF hasTok THEN DownTok(f) ELSE NoTok
      csHit == \E d \in cs[w] : MatchesData(k, d)
      head == [Rec("dispatchInterest", w, k, f) EXCEPT !.nonce = nonce, !.tok = tok]
  IN /\ Commit(w, onIncomingInterest(Begin(w, tok, head), w, f, k, nonce, tok,
                                     lifetime, csHit, ups))
     /\ UNCHANGED <<tables, cfg, now, faceUp, cs>>

\* an Interest with a HopLimit field arrives on face f; localName: its name is
\* in the local scope
ReceiveInterestChecked(f, k, nonce, lifetime, ups, hopLimit, localName) ==
  LET w == DispatchInterest(k[1])
      csHit == \E d \in cs[w] : MatchesData(k, d)
      head == [Rec("dispatchInterest", w, k, f) EXCEPT
                 !.nonce = nonce, !.hop = hopLimit, !.flag = localName]
  IN /\ Commit(w, onIncomingInterestChecked(Begin(w, NoTok, head), w, f, k, nonce,
                                            NoTok, lifetime, csHit, ups,
                                            hopLimit, localName))
     /\ UNCHANGED <<tables, cfg, now, faceUp, cs>>

\* a Data arrives on face f
ReceiveData(f, dname, tok) ==
  LET w == DispatchData(dname, tok)
      head == [Rec("dispatchData", w, <<dname, FALSE>>, f) EXCEPT !.tok = tok]
  IN /\ Commit(w, onIncomingData(Begin(w, tok, head), w, f, dname))
     /\ cs' = IF PitMatches(pit[w], dname) # {}
              THEN [cs EXCEPT ![w] = @ \cup {dname}] ELSE cs
     /\ UNCHANGED <<tables, cfg, now, faceUp>>

\* a Nack arrives on face f for the Interest (k, nonce)
ReceiveNack(f, k, nonce, tok) ==
  LET w == DispatchData(k[1], tok)
      head == [Rec("dispatchNack", w, k, f) EXCEPT !.nonce = nonce, !.tok = tok]
  IN /\ Commit(w, onIncomingNack(Begin(w, tok, head), w, f, k, nonce))
     /\ UNCHANGED <<tables, cfg, now, faceUp, cs>>

StrategyHead(w, k) ==
  [Rec("strategy", w, k, 0) EXCEPT !.sat = pit[w][k].satisfied]

\* later, from a scheduler event, the strategy forwards the Interest of
\* in-record `from` to face egress
StrategySendInterest(w, k, egress, from) ==
  /\ pit[w][k].present
  /\ FindRecord(pit[w][k].inRecords, from) # 0
  /\ Commit(w, sendInterest(Begin(w, NoTok, StrategyHead(w, k)), w, k, egress, from))
  /\ UNCHANGED <<tables, cfg, now, faceUp, cs>>

\* the strategy returns a Data that satisfies the entry to face egress
StrategySendData(w, k, egress) ==
  /\ pit[w][k].present
  /\ Commit(w, sendData(Begin(w, NoTok, StrategyHead(w, k)), w, k, egress))
  /\ UNCHANGED <<tables, cfg, now, faceUp, cs>>

StrategySendDataToAll(w, k, inFace) ==
  /\ pit[w][k].present
  /\ Commit(w, sendDataToAll(Begin(w, NoTok, StrategyHead(w, k)), w, k, inFace))
  /\ UNCHANGED <<tables, cfg, now, faceUp, cs>>

StrategySendNack(w, k, egress) ==
  /\ pit[w][k].present
  /\ Commit(w, sendNack(Begin(w, NoTok, StrategyHead(w, k)), w, k, egress))
  /\ UNCHANGED <<tables, cfg, now, faceUp, cs>>

StrategySendNacks(w, k, exceptFaces) ==
  /\ pit[w][k].present
  /\ Commit(w, sendNacks(Begin(w, NoTok, StrategyHead(w, k)), w, k, exceptFaces))
  /\ UNCHANGED <<tables, cfg, now, faceUp, cs>>

\* the strategy gives the entry up
StrategyRejectPendingInterest(w, k) ==
  /\ pit[w][k].present
  /\ Commit(w, rejectPendingInterest(Begin(w, NoTok, StrategyHead(w, k)), w, k))
  /\ UNCHANGED <<tables, cfg, now, faceUp, cs>>

\* the strategy extends or shortens the time it waits for a response
StrategySetExpiryTimer(w, k, duration) ==
  /\ pit[w][k].present
  /\ Commit(w, Log(setExpiryTimer(Begin(w, NoTok, StrategyHead(w, k)), k, duration),
                   [Rec("setExpiryTimer", w, k, 0) EXCEPT !.sat = pit[w][k].satisfied]))
  /\ UNCHANGED <<tables, cfg, now, faceUp, cs>>

\* the expiry timer of an entry fires: the entry is erased
ExpiryTimerFires(w, k) ==
  /\ pit[w][k].present
  /\ pit[w][k].expiry <= now
  /\ pit' = [pit EXCEPT ![w][k] = NoEntry]
  /\ calls' = <<Rec("timer", w, k, 0)>>
  /\ UNCHANGED <<tables, cfg, now, faceUp, cs, steps>>

Tick ==
  /\ now < MaxTime
  /\ now' = now + 1
  /\ calls' = <<Rec("tick", 0, NoKey, 0)>>
  /\ UNCHANGED <<tables, cfg, faceUp, pit, cs, steps>>

\* a face goes down or comes back up
FaceStateChange(f) ==
  /\ faceUp' = [faceUp EXCEPT ![f] = ~@]
  /\ calls' = <<Rec("face", 0, NoKey, f)>>
  /\ steps' = steps + 1
  /\ UNCHANGED <<tables, cfg, now, pit, cs>>


(***************************************************************************)
(* Environment: the packets, strategy decisions and events offered         *)
(***************************************************************************)
\* /b with CanBePrefix, and /b/a without
KeyB == <<<<2>>, TRUE>>
KeyBA == <<<<2, 1>>, FALSE>>

\* Interests arrive on the downstream faces, the strategy forwards upstream
DownFaces == {1, 2}
UpFaces == {3}

InterestStep(keys, nonces, toks, lifetimes, upsets) ==
  /\ steps < MaxSteps
  /\ \E f \in DownFaces, k \in keys, nonce \in nonces, hasTok \in toks,
        lifetime \in lifetimes, ups \in upsets :
        ReceiveInterest(f, k, nonce, hasTok, lifetime, ups)

InterestCheckedStep(keys, nonces, lifetimes, upsets) ==
  /\ steps < MaxSteps
  /\ \E f \in DownFaces, k \in keys, nonce \in nonces, lifetime \in lifetimes,
        ups \in upsets, hopLimit \in HopLimits, localName \in BOOLEAN :
        ReceiveInterestChecked(f, k, nonce, lifetime, ups, hopLimit, localName)

DataStep(faces, dnames) ==
  /\ steps < MaxSteps
  /\ \E f \in faces, dname \in dnames :
        \E tok \in {NoTok} \cup EchoTokens(f, {k \in Keys : MatchesData(k, dname)}) :
           ReceiveData(f, dname, tok)

NackStep(faces, keys, nonces) ==
  /\ steps < MaxSteps
  /\ \E f \in faces, k \in keys, nonce \in nonces :
        \E tok \in {NoTok} \cup EchoTokens(f, {k}) : ReceiveNack(f, k, nonce, tok)

SendInterestStep(faces) ==
  /\ steps < MaxSteps
  /\ \E w \in Workers, k \in Keys, egress \in faces, from \in DownFaces :
        StrategySendInterest(w, k, egress, from)

SendDataStep ==
  /\ steps < MaxSteps
  /\ \E w \in Workers, k \in Keys, egress \in Faces : StrategySendData(w, k, egress)

SendDataToAllStep ==
  /\ steps < MaxSteps
  /\ \E w \in Workers, k \in Keys, inFace \in Faces : StrategySendDataToAll(w, k, inFace)

SendNackStep ==
  /\ steps < MaxSteps
  /\ \E w \in Workers, k \in Keys, egress \in Faces : StrategySendNack(w, k, egress)

SendNacksStep ==
  /\ steps < MaxSteps
  /\ \E w \in Workers, k \in Keys, exceptFaces \in {{}} \cup {{f} : f \in DownFaces} :
        StrategySendNacks(w, k, exceptFaces)

RejectStep ==
  /\ steps < MaxSteps
  /\ \E w \in Workers, k \in Keys : StrategyRejectPendingInterest(w, k)

SetExpiryTimerStep(durations) ==
  /\ steps < MaxSteps
  /\ \E w \in Workers, k \in Keys, duration \in durations :
        StrategySetExpiryTimer(w, k, duration)

TimerStep == \E w \in Workers, k \in Keys : ExpiryTimerFires(w, k)

FaceStep(faces) ==
  /\ steps < MaxSteps
  /\ \E f \in faces : FaceStateChange(f)

\* no route, no strategy registered
NoRoutes == [p \in {<<>>} |-> {}]

\* Data names held by the Content Store under study
DataNames == {1, 2, 3, 4}

\* an empty Content Store with all three limits set to n
EmptyStore(n) ==
  [limit |-> n, pmLimit |-> n, emLimit |-> n,
   table |-> {}, queue |-> <<>>, tableExact |-> {}, queueExact |-> <<>>]

NoUse == [pm |-> [d \in DataNames |-> 0], em |-> [d \in DataNames |-> 0]]

\* the internal client transports and the internal forwarder transports of
\* the process; NoTransport is the null pointer
Clients == {1, 2}
Forwarders == {1, 2}
NoTransport == 0

\* client transports that exist and are not connected and forwarder
\* transports that are up; nothing is posted to the event loop, nothing has
\* been received, the next packet is packet 1
NoLink ==
  [alive |-> [c \in Clients |-> TRUE],
   forwarder |-> [c \in Clients |-> NoTransport],
   conn |-> [c \in Clients |-> NoTransport],
   callback |-> [c \in Clients |-> TRUE],
   peer |-> [f \in Forwarders |-> NoTransport],
   state |-> [f \in Forwarders |-> "UP"],
   loop |-> <<>>,
   atForwarder |-> [f \in Forwarders |-> <<>>],
   atClient |-> [c \in Clients |-> <<>>],
   next |-> 1]

\* a StreamTransportImpl after construction: not connecting, not connected,
\* not receiving, the socket closed, nothing queued; no asynchronous operation
\* is pending in the socket or the timer, no completion handler is waiting in
\* the io_service; nothing was written, nothing arrived, nothing was delivered
NoStream ==
  [isConnecting |-> FALSE, isConnected |-> FALSE, isReceiving |-> FALSE,
   open |-> FALSE, transmissionQueue |-> <<>>,
   inputBuffer |-> <<>>, inputBufferSize |-> 0,
   pending |-> <<>>, ready |-> <<>>,
   nextItem |-> 1, written |-> <<>>, arrived |-> 0, delivered |-> <<>>]

\* the components that a specification does not exercise
Idle(kept) ==
  /\ "fib" \in kept \/ fib = NoRoutes
  /\ "registry" \in kept \/ registry = {}
  /\ "store" \in kept \/ (store = EmptyStore(1) /\ lastUse = NoUse)
  /\ "link" \in kept \/ link = NoLink
  /\ "stream" \in kept \/ stream = NoStream

InitBase(builds, prefixLens) ==
  /\ cfg \in [dualCs : builds, pitTokenHash : builds, prefixLen : prefixLens]
  /\ now = 0
  /\ faceUp = [f \in Faces |-> TRUE]
  /\ pit = [w \in Workers |-> [k \in Keys |-> NoEntry]]
  /\ cs = [w \in Workers |-> {}]
  /\ calls = <<>>
  /\ steps = 0

InitWith(builds, prefixLens) ==
  /\ InitBase(builds, prefixLens)
  /\ Idle({})

(***************************************************************************)
(* One PIT entry under every strategy action                               *)
(***************************************************************************)
InitPit == InitWith({TRUE}, {1})

NextPit ==
  \/ InterestStep({KeyB}, Nonces, {FALSE}, Lifetimes, {{}, UpFaces})
  \/ DataStep(Faces, {<<2, 1>>})
  \/ SendInterestStep(UpFaces)
  \/ SendDataStep
  \/ SendDataToAllStep
  \/ SendNackStep
  \/ SendNacksStep
  \/ TimerStep
  \/ Tick
  \/ FaceStep(DownFaces)

SpecPit == InitPit /\ [][NextPit]_vars

(***************************************************************************)
(* Two PIT entries, /b with CanBePrefix and /b/a, that one Data satisfies  *)
(***************************************************************************)
InitMulti == InitWith({TRUE}, {1})

NextMulti ==
  \/ InterestStep({KeyB, KeyBA}, {1}, {FALSE}, Lifetimes, {{}, UpFaces})
  \/ DataStep(Faces, Names)
  \/ TimerStep
  \/ Tick

SpecMulti == InitMulti /\ [][NextMulti]_vars

(***************************************************************************)
(* Nacks from the upstream; Data arrives from another face                 *)
(***************************************************************************)
InitNack == InitWith({TRUE}, {1})

NextNack ==
  \/ InterestStep({KeyB}, Nonces, {FALSE}, Lifetimes, {{}, UpFaces})
  \/ DataStep(DownFaces, {<<2, 1>>})
  \/ NackStep(Faces, {KeyB}, Nonces)
  \/ FaceStep(UpFaces)

SpecNack == InitNack /\ [][NextNack]_vars

(***************************************************************************)
(* Every build and dispatch prefix length; Interests with and without a    *)
(* PitToken; Data from the upstream with the token echoed or without one   *)
(***************************************************************************)
InitTok == InitWith(BOOLEAN, 1 .. MaxPrefixLen)

NextTok ==
  \/ InterestStep({KeyB, KeyBA}, {1}, BOOLEAN, {2}, {{}, UpFaces})
  \/ SendInterestStep(UpFaces)
  \/ DataStep(UpFaces, {<<2, 1>>})

SpecTok == InitTok /\ [][NextTok]_vars

(***************************************************************************)
(* Expiry: the timers are events of the worker's event loop, which runs a  *)
(* timer that is due                                                       *)
(***************************************************************************)
InitExpiry == InitWith({TRUE}, {1})

NextExpiry ==
  \/ InterestStep({KeyB}, Nonces, {FALSE}, Lifetimes, {{}, UpFaces})
  \/ DataStep(UpFaces, {<<2, 1>>})
  \/ RejectStep
  \/ SetExpiryTimerStep({1})
  \/ SendNackStep
  \/ TimerStep
  \/ Tick

SpecExpiry ==
  /\ InitExpiry
  /\ [][NextExpiry]_vars
  /\ \A w \in Workers, k \in Keys : WF_vars(ExpiryTimerFires(w, k))

(***************************************************************************)
(* Violation checks: Interests with and without HopLimit, in and out of    *)
(* scope, with fresh and repeated nonces, before and after Data is cached  *)
(***************************************************************************)
InitLoop == InitWith({TRUE}, {1})

NextLoop ==
  \/ InterestCheckedStep({KeyB}, Nonces, {1}, {{}, UpFaces})
  \/ DataStep(UpFaces, {<<2, 1>>})
  \/ TimerStep
  \/ Tick

SpecLoop == InitLoop /\ [][NextLoop]_vars

(***************************************************************************)
(* FIB lookup (strategy.cpp, specification 4.7).  fib[p] is the set of     *)
(* next hops of the entry for prefix p; the root entry stands for the      *)
(* empty entry when it has no next hop.  A FIB entry is read as            *)
(* <<prefix, nextHops>>.                                                   *)
(***************************************************************************)
\* FIB lookup that stops at the shortest prefix with an entry
findShortestPrefixMatch(name) ==
  LET found == {n \in 1 .. Len(name) : SubSeq(name, 1, n) \in DOMAIN fib}
  IN IF found = {} THEN <<<<>>, fib[<<>>]>>
     ELSE LET n == CHOOSE x \in found : \A y \in found : x <= y
          IN <<SubSeq(name, 1, n), fib[SubSeq(name, 1, n)]>>

\* the walk from the first n components of name upward to the root
RECURSIVE WalkUp(_, _)
WalkUp(name, n) ==
  IF n = 0 THEN <<<<>>, fib[<<>>]>>
  ELSE LET p == SubSeq(name, 1, n)
       IN IF p \in DOMAIN fib THEN <<p, fib[p]>>
          ELSE WalkUp(name, n - 1)

\* Fib::findLongestPrefixMatch
findLongestPrefixMatch(name) == WalkUp(name, Len(name))

\* fib::Entry::hasNextHops
hasNextHops(fibEntry) == fibEntry[2] # {}

\* the loop over the delegation list that keeps the last delegation that
\* finds a next hop
RECURSIVE lastDelegation(_, _, _)
lastDelegation(fh, i, best) ==
  LET fibEntry == findLongestPrefixMatch(fh[i])
      b == IF hasNextHops(fibEntry) THEN fibEntry ELSE best
  IN IF i = Len(fh) THEN b ELSE lastDelegation(fh, i + 1, b)

\* lookupFib that uses the last delegation with a next hop
lookupFibLastDelegation(name, fh) ==
  IF fh = <<>> THEN findLongestPrefixMatch(name)
  ELSE lastDelegation(fh, 1, <<<<>>, fib[<<>>]>>)

\* the loop of lookupFib over the delegation list, from delegation i on
RECURSIVE firstDelegation(_, _)
firstDelegation(fh, i) ==
  LET fibEntry == findLongestPrefixMatch(fh[i])
  IN IF hasNextHops(fibEntry) THEN fibEntry
     ELSE IF i = Len(fh) THEN fibEntry
     ELSE firstDelegation(fh, i + 1)

\* Strategy::lookupFib for the Interest (name, forwarding hint fh) of a PIT entry
lookupFib(name, fh) ==
  IF fh = <<>> THEN findLongestPrefixMatch(name)
  ELSE firstDelegation(fh, 1)

\* the assertions of the loop of lookupFib, from delegation i on: a match
\* without next hops is the root entry, and the entry returned when no
\* delegation finds a next hop is the root entry
RECURSIVE delegationAsserts(_, _)
delegationAsserts(fh, i) ==
  LET fibEntry == findLongestPrefixMatch(fh[i])
  IN IF hasNextHops(fibEntry) THEN TRUE
     ELSE /\ Len(fibEntry[1]) = 0
          /\ i < Len(fh) => delegationAsserts(fh, i + 1)

\* whether every assertion that a call of lookupFib meets holds
lookupFibAsserts(name, fh) == fh = <<>> \/ delegationAsserts(fh, 1)

\* names of the Interests and of the delegations that are looked up
LookupNames == {<<1>>, <<2>>, <<2, 1>>, <<2, 1, 1>>, <<3>>}
Delegations == {<<1, 1>>, <<2, 1>>, <<3>>}
HintLists ==
  {<<>>} \cup {<<a>> : a \in Delegations} \cup {<<a, b>> : a, b \in Delegations}

\* a strategy looks up the FIB for an Interest
StrategyLookupFib(name, fh) ==
  /\ calls' = <<[Rec("lookupFib", 0, NoKey, 0) EXCEPT
                   !.arg = <<name, fh>>, !.ret = lookupFib(name, fh),
                   !.ok = lookupFibAsserts(name, fh)]>>
  /\ UNCHANGED <<tables, cfg, now, faceUp, pit, cs, steps>>

LookupFibStep == \E name \in LookupNames, fh \in HintLists : StrategyLookupFib(name, fh)

\* the FIBs a run starts from: any set of entries with a next hop, and the
\* root entry with or without one
InitialFibs ==
  {[p \in S \cup {<<>>} |-> IF p \in S THEN {<<3, 1>>} ELSE {}] : S \in SUBSET FibNames}

InitFib ==
  /\ InitBase({TRUE}, {1})
  /\ fib \in InitialFibs
  /\ Idle({"fib"})

NextFib == LookupFibStep

SpecFib == InitFib /\ [][NextFib]_vars

(***************************************************************************)
(* FIB updates (fib-update.hpp, specification 3 and 6): an update names    *)
(* a prefix, a face and a cost; the next hops of an entry are unique by    *)
(* face                                                                    *)
(***************************************************************************)
ADD_NEXTHOP == 0
REMOVE_NEXTHOP == 1

\* FibUpdate::createAddUpdate
createAddUpdate(name, faceId, cost) ==
  [name |-> name, faceId |-> faceId, cost |-> cost, action |-> ADD_NEXTHOP]

\* FibUpdate::createRemoveUpdate
createRemoveUpdate(name, faceId) ==
  [name |-> name, faceId |-> faceId, cost |-> 0, action |-> REMOVE_NEXTHOP]

\* removing a next hop, done by erasing the whole entry
removeNextHopErasesEntry(t, name, faceId) ==
  [p \in DOMAIN t \ ({name} \ {<<>>}) |-> IF p = name THEN {} ELSE t[p]]

\* removing a next hop, leaving an entry without next hops in the FIB
removeNextHopKeepsEntry(t, name, faceId) ==
  IF name \in DOMAIN t THEN [t EXCEPT ![name] = {h \in @ : h[1] # faceId}] ELSE t

\* add(name, faceId, cost): the entry is inserted if there is none, the next
\* hop of that face is added or its cost is updated
addNextHop(t, name, faceId, cost) ==
  [p \in DOMAIN t \cup {name} |->
     IF p # name THEN t[p]
     ELSE {h \in (IF name \in DOMAIN t THEN t[name] ELSE {}) : h[1] # faceId}
            \cup {<<faceId, cost>>}]

\* remove(name, faceId): the next hop of that face is removed, and with the
\* last next hop the entry
removeNextHop(t, name, faceId) ==
  LET left == IF name \in DOMAIN t THEN {h \in t[name] : h[1] # faceId} ELSE {}
      kept == IF left = {} THEN DOMAIN t \ ({name} \ {<<>>}) ELSE DOMAIN t
  IN  [p \in kept |-> IF p = name THEN left ELSE t[p]]

\* the FIB applies an update
applyUpdate(t, u) ==
  IF u.action = ADD_NEXTHOP
  THEN addNextHop(t, u.name, u.faceId, u.cost)
  ELSE removeNextHop(t, u.name, u.faceId)

UpdateNames == {<<1>>, <<2, 1>>}
UpdateFaces == {3, 4}
UpdateCosts == {1, 2}

\* the routing daemon sends an update; the log keeps the update before this
\* one (hop), the FIB before this update (ret) and the FIB before the update
\* before (pre)
FibApply(u) ==
  /\ fib' = applyUpdate(fib, u)
  /\ calls' = <<[Rec("fibUpdate", 0, NoKey, 0) EXCEPT
                   !.arg = <<u>>,
                   !.hop = IF calls = <<>> THEN <<>> ELSE calls[1].arg,
                   !.ret = <<fib>>,
                   !.pre = IF calls = <<>> THEN <<>> ELSE calls[1].ret]>>
  /\ UNCHANGED <<cfg, now, faceUp, pit, cs, steps, registry, store, lastUse, link, stream>>

AddNextHopStep ==
  \E name \in UpdateNames, f \in UpdateFaces, c \in UpdateCosts :
    FibApply(createAddUpdate(name, f, c))

RemoveNextHopStep ==
  \E name \in UpdateNames, f \in UpdateFaces : FibApply(createRemoveUpdate(name, f))

InitFibUpdate ==
  /\ InitBase({FALSE}, {1})
  /\ fib \in InitialFibs
  /\ Idle({"fib"})

NextFibUpdate == AddNextHopStep \/ RemoveNextHopStep

SpecFibUpdate == InitFibUpdate /\ [][NextFibUpdate]_vars

\* lookups of a FIB that the routing daemon updates
NextFibLookup ==
  \/ AddNextHopStep
  \/ RemoveNextHopStep
  \/ \E fh \in HintLists : StrategyLookupFib(<<2, 1>>, fh)

SpecFibLookup == InitFibUpdate /\ [][NextFibLookup]_vars

(***************************************************************************)
(* Strategy registry (strategy.cpp).  Name components are numbered in      *)
(* canonical order: 1 is a short generic component, 100 + v is the version *)
(* component of version v, 200 and 201 are generic components longer than  *)
(* a version component.  The registry is the set of its keys.              *)
(***************************************************************************)
\* name::Component::isVersion, toVersion
IsVersion(c) == c \in 100 .. 199
toVersion(c) == c - 100

\* Name::operator<: component by component, a proper prefix comes first
RECURSIVE NameLess(_, _)
NameLess(a, b) ==
  IF a = <<>> THEN b # <<>>
  ELSE IF b = <<>> THEN FALSE
  ELSE IF Head(a) # Head(b) THEN Head(a) < Head(b)
  ELSE NameLess(Tail(a), Tail(b))

\* Name::getPrefix(-1)
DropLast(n) == SubSeq(n, 1, Len(n) - 1)

\* Name::getSuccessor of a name that is not empty
getSuccessor(n) == [n EXCEPT ![Len(n)] = @ + 1]

\* registry.end(); no key of the registry is the empty name
RegistryEnd == <<>>

\* registry.begin()
RegistryBegin ==
  IF registry = {} THEN RegistryEnd
  ELSE CHOOSE x \in registry : \A y \in registry : x = y \/ NameLess(x, y)

\* std::map::lower_bound: the first key that is not less than n
lower_bound(n) ==
  LET ge == {x \in registry : ~NameLess(x, n)}
  IN IF ge = {} THEN RegistryEnd
     ELSE CHOOSE x \in ge : \A y \in ge : x = y \/ NameLess(x, y)

\* --found, for an iterator that is not registry.begin()
Decrement(found) ==
  LET lt == IF found = RegistryEnd THEN registry
            ELSE {x \in registry : NameLess(x, found)}
  IN CHOOSE x \in lt : \A y \in lt : x = y \/ NameLess(y, x)

\* the loop of parseInstanceName at index j - 1 (components are 1-based here)
RECURSIVE parseFrom(_, _)
parseFrom(input, j) ==
  IF j < 2 THEN <<input, <<>>, <<>>>>
  ELSE IF IsVersion(input[j])
  THEN <<SubSeq(input, 1, j), <<toVersion(input[j])>>,
         SubSeq(input, j + 1, Len(input))>>
  ELSE parseFrom(input, j - 1)

\* Strategy::parseInstanceName: <<strategyName, version, parameters>>, version
\* is <<>> (nullopt) or <<v>>
parseInstanceName(input) == parseFrom(input, Len(input))

\* find that accepts the exact version only
findExactVersion(instanceName) ==
  LET parsed == parseInstanceName(instanceName)
  IN IF parsed[2] # <<>> /\ parsed[1] \in registry THEN parsed[1]
     ELSE IF parsed[2] # <<>> THEN RegistryEnd
     ELSE IF parsed[1] # <<>> /\ lower_bound(getSuccessor(parsed[1])) # RegistryBegin
             /\ IsPrefixOf(parsed[1], Decrement(lower_bound(getSuccessor(parsed[1]))))
     THEN Decrement(lower_bound(getSuccessor(parsed[1])))
     ELSE RegistryEnd

\* Strategy::find: the key found, or RegistryEnd
find(instanceName) ==
  LET parsed == parseInstanceName(instanceName)
      strategyName == parsed[1]
  IN IF parsed[2] # <<>>
     THEN LET found == lower_bound(strategyName)
          IN IF found # RegistryEnd /\ IsPrefixOf(DropLast(strategyName), found)
             THEN found
             ELSE RegistryEnd
     ELSE IF strategyName # <<>>
     THEN LET found == lower_bound(getSuccessor(strategyName))
          IN IF found # RegistryBegin /\ IsPrefixOf(strategyName, Decrement(found))
             THEN Decrement(found)
             ELSE RegistryEnd
     ELSE RegistryEnd

\* Strategy::canCreate
canCreate(instanceName) == find(instanceName) # RegistryEnd

\* makeInstanceName that appends the version whatever the input holds
makeInstanceNameAlwaysAppend(input, strategyName) ==
  Append(input, strategyName[Len(strategyName)])

\* Strategy::makeInstanceName
makeInstanceName(input, strategyName) ==
  LET hasVersion == \E i \in 1 .. Len(input) : IsVersion(input[i])
  IN IF hasVersion THEN input ELSE Append(input, strategyName[Len(strategyName)])

\* the constructor of the strategy type registered as strategyName: it throws
\* std::invalid_argument when it does not accept the version or parameters,
\* and otherwise sets the instance name; <<outcome, type, instance name>>
construct(strategyName, instanceName, accepts) ==
  IF accepts
  THEN <<"instance", strategyName, makeInstanceName(instanceName, strategyName)>>
  ELSE <<"throw", <<>>, <<>>>>

\* create that falls back to the first registered strategy
createFirstRegistered(instanceName, accepts) ==
  LET found == find(instanceName)
  IN IF found = RegistryEnd
     THEN IF registry = {} THEN <<"null", <<>>, <<>>>>
          ELSE construct(RegistryBegin, instanceName, accepts)
     ELSE construct(found, instanceName, accepts)

\* Strategy::create
create(instanceName, accepts) ==
  LET found == find(instanceName)
  IN IF found = RegistryEnd THEN <<"null", <<>>, <<>>>>
     ELSE construct(found, instanceName, accepts)

\* Strategy::areSameType
areSameType(instanceNameA, instanceNameB) == find(instanceNameA) = find(instanceNameB)

\* strategy names that are registered in some run: /1 in version 1, and two
\* strategies whose names extend /1: /1/200 in versions 1 and 3, /1/201 in
\* version 2
RegisteredNames == {<<1, 101>>, <<1, 200, 101>>, <<1, 200, 103>>, <<1, 201, 102>>}

\* instance names handed to find and parseInstanceName
Components == {1, 200, 201, 101, 102, 103, 104}
InstanceNames ==
  {<<>>} \cup {<<a>> : a \in Components}
         \cup {<<a, b>> : a, b \in Components}
         \cup {<<1, b, c>> : b \in {200, 201, 102}, c \in Components}
         \cup {<<1, 200, c, d>> : c \in {101, 102, 103, 104}, d \in {1, 103}}

\* Strategy::find is called (canCreate, create, areSameType)
StrategyFind(instanceName) ==
  /\ calls' = <<[Rec("find", 0, NoKey, 0) EXCEPT
                   !.arg = instanceName, !.ret = find(instanceName)]>>
  /\ UNCHANGED <<tables, cfg, now, faceUp, pit, cs, steps>>

\* a strategy constructor parses its instance name
StrategyParseInstanceName(input) ==
  /\ calls' = <<[Rec("parseInstanceName", 0, NoKey, 0) EXCEPT
                   !.arg = input, !.ret = parseInstanceName(input)]>>
  /\ UNCHANGED <<tables, cfg, now, faceUp, pit, cs, steps>>

\* the strategy-choice table creates a strategy instance
StrategyCreate(instanceName, accepts) ==
  /\ calls' = <<[Rec("create", 0, NoKey, 0) EXCEPT
                   !.arg = instanceName, !.ret = create(instanceName, accepts),
                   !.flag = canCreate(instanceName)]>>
  /\ UNCHANGED <<tables, cfg, now, faceUp, pit, cs, steps>>

\* a strategy constructor makes its instance name
StrategyMakeInstanceName(input, strategyName) ==
  /\ calls' = <<[Rec("makeInstanceName", 0, NoKey, 0) EXCEPT
                   !.arg = <<input, strategyName>>,
                   !.ret = makeInstanceName(input, strategyName)]>>
  /\ UNCHANGED <<tables, cfg, now, faceUp, pit, cs, steps>>

\* two instance names are compared
StrategyAreSameType(instanceNameA, instanceNameB) ==
  /\ calls' = <<[Rec("areSameType", 0, NoKey, 0) EXCEPT
                   !.arg = <<instanceNameA, instanceNameB>>,
                   !.flag = areSameType(instanceNameA, instanceNameB)]>>
  /\ UNCHANGED <<tables, cfg, now, faceUp, pit, cs, steps>>

\* instance names that are compared with each other
ComparedNames ==
  {<<>>, <<1>>, <<201>>, <<1, 200>>, <<1, 201>>, <<1, 200, 101>>, <<1, 200, 102>>,
   <<1, 200, 103, 1>>, <<1, 200, 104>>, <<1, 201, 102>>}

CreateStep ==
  \E instanceName \in InstanceNames, accepts \in BOOLEAN :
    StrategyCreate(instanceName, accepts)

MakeInstanceNameStep ==
  \E input \in InstanceNames, strategyName \in registry :
    StrategyMakeInstanceName(input, strategyName)

AreSameTypeStep ==
  \E instanceNameA, instanceNameB \in ComparedNames :
    StrategyAreSameType(instanceNameA, instanceNameB)

FindStep == \E instanceName \in InstanceNames : StrategyFind(instanceName)

ParseStep == \E input \in InstanceNames : StrategyParseInstanceName(input)

InitRegistry ==
  /\ InitBase({TRUE}, {1})
  /\ registry \in SUBSET RegisteredNames
  /\ Idle({"registry"})

NextRegistry ==
  \/ FindStep
  \/ ParseStep
  \/ CreateStep
  \/ MakeInstanceNameStep
  \/ AreSameTypeStep

SpecRegistry == InitRegistry /\ [][NextRegistry]_vars

(***************************************************************************)
(* Content Store and LRU policy (cs-policy.cpp, cs-policy-lru.hpp,         *)
(* specification 4.6).  A store p holds the prefix-match view (table,      *)
(* queue) and, with ETRI_DUAL_CS, the exact-match view (tableExact,        *)
(* queueExact); a queue lists the entries of its view, least recently used *)
(* first.  Each view is kept under the limit and under its own cap.        *)
(***************************************************************************)
MaxLimit == 3
Limits == 1 .. MaxLimit

\* queue q without entry d
Without(q, d) == SelectSeq(q, LAMBDA x : x # d)

\* insertToQueue that leaves an entry already queued where it is
insertToQueueKeepPlace(q, d) ==
  IF \E i \in 1 .. Len(q) : q[i] = d THEN q ELSE Append(q, d)

\* LruPolicy::insertToQueue: moves an entry to the end of queue
insertToQueue(q, d) == Append(Without(q, d), d)

\* LruPolicy::evictEntries: evict from the head of the queue while the
\* prefix-match view is over the limit or over its cap; the Content Store
\* erases each evicted entry from its table
RECURSIVE evictEntries(_)
evictEntries(p) ==
  IF Cardinality(p.table) > Min(p.limit, p.pmLimit)
  THEN evictEntries([p EXCEPT !.queue = Tail(@), !.table = @ \ {Head(p.queue)}])
  ELSE p

\* LruPolicy::evictEntriesExact
RECURSIVE evictEntriesExact(_)
evictEntriesExact(p) ==
  IF Cardinality(p.tableExact) > Min(p.limit, p.emLimit)
  THEN evictEntriesExact([p EXCEPT !.queueExact = Tail(@),
                                   !.tableExact = @ \ {Head(p.queueExact)}])
  ELSE p

\* setLimit that stores the limit without evicting
setLimitNoEvict(p, nMaxEntries, dual) == [p EXCEPT !.limit = nMaxEntries]

\* Policy::setLimit
setLimit(p, nMaxEntries, dual) ==
  LET p1 == evictEntries([p EXCEPT !.limit = nMaxEntries])
  IN IF dual THEN evictEntriesExact(p1) ELSE p1

\* setPmLimit that stores the number as the general limit
setPmLimitAsLimit(p, nMaxEntries) == evictEntries([p EXCEPT !.limit = nMaxEntries])

\* Policy::setPmLimit
setPmLimit(p, nMaxEntries) == evictEntries([p EXCEPT !.pmLimit = nMaxEntries])

\* Policy::setEmLimit
setEmLimit(p, nMaxEntries, dual) ==
  LET p1 == [p EXCEPT !.emLimit = nMaxEntries]
  IN IF dual THEN evictEntriesExact(p1) ELSE p1

\* Policy::afterInsert, afterRefresh, beforeUse, beforeErase with the LRU
\* policy, on the prefix-match view
afterInsert(p, d) == evictEntries([p EXCEPT !.queue = insertToQueue(@, d)])
afterRefresh(p, d) == [p EXCEPT !.queue = insertToQueue(@, d)]
beforeUse(p, d) == [p EXCEPT !.queue = insertToQueue(@, d)]
beforeErase(p, d) == [p EXCEPT !.queue = Without(@, d)]

\* the same on the exact-match view
afterInsertExact(p, d) ==
  evictEntriesExact([p EXCEPT !.queueExact = insertToQueue(@, d)])
afterRefreshExact(p, d) == [p EXCEPT !.queueExact = insertToQueue(@, d)]
beforeUseExact(p, d) == [p EXCEPT !.queueExact = insertToQueue(@, d)]
beforeEraseExact(p, d) == [p EXCEPT !.queueExact = Without(@, d)]

\* Cs::insert into one view: a Data already stored is refreshed
InsertPrefix(p, d) ==
  IF d \in p.table THEN afterRefresh(p, d)
  ELSE afterInsert([p EXCEPT !.table = @ \cup {d}], d)

InsertExact(p, d) ==
  IF d \in p.tableExact THEN afterRefreshExact(p, d)
  ELSE afterInsertExact([p EXCEPT !.tableExact = @ \cup {d}], d)

\* Cs::insert that leaves the exact-match view alone
CsInsertPrefixOnly(p, d, dual) == InsertPrefix(p, d)

\* Cs::insert: the Data is inserted into both views
CsInsert(p, d, dual) ==
  IF dual THEN InsertExact(InsertPrefix(p, d), d) ELSE InsertPrefix(p, d)

\* the view a lookup selects: the exact-match view for an Interest without
\* CanBePrefix when dual-CS is on
UsesExact(canBePrefix, dual) == dual /\ ~canBePrefix

\* Cs::find: a hit is signalled to the policy of the view that was used
CsFind(p, d, canBePrefix, dual) ==
  IF UsesExact(canBePrefix, dual)
  THEN IF d \in p.tableExact THEN beforeUseExact(p, d) ELSE p
  ELSE IF d \in p.table THEN beforeUse(p, d) ELSE p

CsHit(p, d, canBePrefix, dual) ==
  IF UsesExact(canBePrefix, dual) THEN d \in p.tableExact ELSE d \in p.table

\* Cs::erase: beforeErase, then the entry is removed, in each view that has it
CsErase(p, d, dual) ==
  LET p1 == IF d \in p.table
            THEN [beforeErase(p, d) EXCEPT !.table = @ \ {d}] ELSE p
  IN IF dual /\ d \in p1.tableExact
     THEN [beforeEraseExact(p1, d) EXCEPT !.tableExact = @ \ {d}]
     ELSE p1

\* time of last use, kept up to order: d is the most recent of the entries
\* of r, the other entries keep their order
Touch(r, d) ==
  [x \in DataNames |->
     IF x = d THEN Cardinality({y \in DataNames \ {d} : r[y] > 0}) + 1
     ELSE IF r[x] = 0 THEN 0
     ELSE Cardinality({y \in DataNames \ {d} : r[y] > 0 /\ r[y] <= r[x]})]

\* the entries that are no longer stored are forgotten
Forget(r, stored) ==
  [x \in DataNames |->
     IF x \notin stored THEN 0
     ELSE Cardinality({y \in stored : r[y] <= r[x]})]

\* the Content Store handles one operation; the times of last use follow; the
\* log keeps the sizes of the two views before the operation
CsCommit(op, d, n, p, usedPm, usedEm) ==
  /\ store' = p
  /\ lastUse' = [pm |-> Forget(IF usedPm THEN Touch(lastUse.pm, d) ELSE lastUse.pm,
                               p.table),
                 em |-> Forget(IF usedEm THEN Touch(lastUse.em, d) ELSE lastUse.em,
                               p.tableExact)]
  /\ calls' = <<[Rec(op, 0, NoKey, 0) EXCEPT
                   !.arg = <<d, n>>,
                   !.ret = <<Cardinality(store.table), Cardinality(store.tableExact)>>]>>
  /\ UNCHANGED <<cfg, now, faceUp, pit, cs, steps, fib, registry, link, stream>>

\* a Data is admitted to the Content Store
StoreInsert(d) ==
  CsCommit("insert", d, 0, CsInsert(store, d, cfg.dualCs), TRUE, cfg.dualCs)

\* an Interest is looked up in the Content Store
StoreFind(d, canBePrefix) ==
  CsCommit("find", d, 0, CsFind(store, d, canBePrefix, cfg.dualCs),
           ~UsesExact(canBePrefix, cfg.dualCs) /\ CsHit(store, d, canBePrefix, cfg.dualCs),
           UsesExact(canBePrefix, cfg.dualCs) /\ CsHit(store, d, canBePrefix, cfg.dualCs))

\* a Data is erased from the Content Store
StoreErase(d) ==
  CsCommit("erase", d, 0, CsErase(store, d, cfg.dualCs), FALSE, FALSE)

\* management sets the limits
StoreSetLimit(n) ==
  CsCommit("setLimit", 0, n, setLimit(store, n, cfg.dualCs), FALSE, FALSE)

StoreSetPmLimit(n) ==
  CsCommit("setPmLimit", 0, n, setPmLimit(store, n), FALSE, FALSE)

StoreSetEmLimit(n) ==
  CsCommit("setEmLimit", 0, n, setEmLimit(store, n, cfg.dualCs), FALSE, FALSE)

InsertDataStep(names) == \E d \in names : StoreInsert(d)
FindDataStep(names, flags) == \E d \in names, canBePrefix \in flags : StoreFind(d, canBePrefix)
EraseDataStep(names) == \E d \in names : StoreErase(d)
SetLimitStep(limits) == \E n \in limits : StoreSetLimit(n)
SetPmLimitStep(limits) == \E n \in limits : StoreSetPmLimit(n)
SetEmLimitStep(limits) == \E n \in limits : StoreSetEmLimit(n)

\* one Content Store without dual-CS, four Data names
InitCs ==
  /\ InitBase({FALSE}, {1})
  /\ store \in {EmptyStore(n) : n \in Limits}
  /\ lastUse = NoUse
  /\ Idle({"store"})

NextCs ==
  \/ InsertDataStep(DataNames)
  \/ FindDataStep(DataNames, {TRUE})
  \/ EraseDataStep(DataNames)
  \/ SetLimitStep(Limits)
  \/ SetPmLimitStep(Limits)
  \/ SetEmLimitStep({1})

SpecCs == InitCs /\ [][NextCs]_vars

\* one Content Store with dual-CS, three Data names
InitDualCs ==
  /\ InitBase({TRUE}, {1})
  /\ store \in {EmptyStore(n) : n \in {1, 2}}
  /\ lastUse = NoUse
  /\ Idle({"store"})

NextDualCs ==
  \/ InsertDataStep({1, 2, 3})
  \/ FindDataStep({1, 2, 3}, BOOLEAN)
  \/ EraseDataStep({1, 2})
  \/ SetLimitStep({1, 2})
  \/ SetPmLimitStep({1, 2})
  \/ SetEmLimitStep({1, 2})

SpecDualCs == InitDualCs /\ [][NextDualCs]_vars

(***************************************************************************)
(* Internal transport pair (specification 4.10)                            *)
(***************************************************************************)
MaxPackets == 3

\* getGlobalIoService().post, with the task put in front of the waiting ones
postFront(l, task) == [l EXCEPT !.loop = <<task>> \o @]

\* getGlobalIoService().post: the task waits behind the tasks posted before
post(l, task) == [l EXCEPT !.loop = Append(@, task)]

\* InternalForwarderTransport::receivePacket: post a task that calls receive
ForwarderReceivePacket(l, f, packet) ==
  post(l, [to |-> "forwarder", id |-> f, packet |-> packet])

\* InternalClientTransport::receivePacket: post a task that calls the receive
\* callback
ClientReceivePacket(l, c, packet) ==
  post(l, [to |-> "client", id |-> c, packet |-> packet])

\* InternalForwarderTransport::doSend
doSend(l, f, packet) ==
  IF l.peer[f] # NoTransport THEN ClientReceivePacket(l, l.peer[f], packet) ELSE l

\* InternalClientTransport::send
send(l, c, packet) ==
  IF l.forwarder[c] # NoTransport
  THEN ForwarderReceivePacket(l, l.forwarder[c], packet)
  ELSE l

\* InternalClientTransport::connectToForwarder, leaving the peer reference of
\* the old forwarder transport as it is
connectToForwarderKeepsPeer(l, c, forwarder) ==
  LET l1 == [l EXCEPT !.conn[c] = NoTransport, !.forwarder[c] = forwarder]
  IN  IF forwarder # NoTransport
      THEN [l1 EXCEPT !.peer[forwarder] = c, !.conn[c] = forwarder]
      ELSE l1

\* InternalClientTransport::connectToForwarder
connectToForwarder(l, c, forwarder) ==
  LET l1 == IF l.forwarder[c] # NoTransport
            THEN [l EXCEPT !.peer[l.forwarder[c]] = NoTransport,
                           !.conn[c] = NoTransport]
            ELSE l
      l2 == [l1 EXCEPT !.forwarder[c] = forwarder]
  IN  IF forwarder # NoTransport
      THEN [l2 EXCEPT !.peer[forwarder] = c, !.conn[c] = forwarder]
      ELSE l2

\* the afterStateChange signal of a forwarder transport calls the handler of
\* each subscribed client: on CLOSED the client disconnects
RECURSIVE afterStateChange(_, _, _)
afterStateChange(l, subscribed, newState) ==
  IF subscribed = {} THEN l
  ELSE LET c == CHOOSE x \in subscribed : \A y \in subscribed : x <= y
       IN  afterStateChange(IF newState = "CLOSED"
                            THEN connectToForwarder(l, c, NoTransport)
                            ELSE l,
                            subscribed \ {c}, newState)

\* Transport::setState: store the state, then emit afterStateChange
setState(l, f, newState) ==
  afterStateChange([l EXCEPT !.state[f] = newState],
                   {c \in Clients : l.conn[c] = f}, newState)

\* InternalForwarderTransport::doClose
doClose(l, f) == setState(l, f, "CLOSED")

\* InternalClientTransport::~InternalClientTransport: the peer reference of
\* the forwarder transport is cleared; the members go with the object, the
\* scoped connection to the state-change signal included
destroyClient(l, c) ==
  LET l1 == IF l.forwarder[c] # NoTransport
            THEN [l EXCEPT !.peer[l.forwarder[c]] = NoTransport]
            ELSE l
  IN  [l1 EXCEPT !.alive[c] = FALSE, !.forwarder[c] = NoTransport,
                 !.conn[c] = NoTransport]

\* the event loop runs the task at the head: the forwarder side calls receive,
\* the client side calls the receive callback if one is set
runTask(l) ==
  LET task == Head(l.loop)
      l1 == [l EXCEPT !.loop = Tail(@)]
  IN  IF task.to = "forwarder"
      THEN [l1 EXCEPT !.atForwarder[task.id] = Append(@, task.packet)]
      ELSE IF l.callback[task.id]
           THEN [l1 EXCEPT !.atClient[task.id] = Append(@, task.packet)]
           ELSE l1

\* what running the task at the head can do: the task holds the this pointer
\* of its transport, so the task of a client that has been destroyed reads a
\* dead object and may run the callback or not
runTaskOutcomes(l) ==
  IF Head(l.loop).to = "client" /\ ~l.alive[Head(l.loop).id]
  THEN {runTask(l), [l EXCEPT !.loop = Tail(@)]}
  ELSE {runTask(l)}

\* one operation on the transports; the log keeps whether the operation found
\* a transport to work on
LinkCommit(op, id, packet, l, flag) ==
  /\ link' = l
  /\ calls' = <<[Rec(op, 0, NoKey, 0) EXCEPT !.arg = <<id, packet>>, !.flag = flag]>>
  /\ UNCHANGED <<cfg, now, faceUp, pit, cs, steps, fib, registry, store, lastUse, stream>>

\* the application hands the next packet to the client transport
ClientSend(c) ==
  /\ link.alive[c]
  /\ link.next <= MaxPackets
  /\ LinkCommit("send", c, link.next,
                [send(link, c, link.next) EXCEPT !.next = @ + 1],
                link.forwarder[c] # NoTransport)

\* the link service hands the next packet to the forwarder transport
ForwarderSend(f) ==
  /\ link.next <= MaxPackets
  /\ LinkCommit("doSend", f, link.next,
                [doSend(link, f, link.next) EXCEPT !.next = @ + 1],
                link.peer[f] # NoTransport)

\* a client is connected to a forwarder transport that is up, or disconnected
ClientConnect(c, forwarder) ==
  /\ link.alive[c]
  /\ forwarder # NoTransport => link.state[forwarder] = "UP"
  /\ LinkCommit("connectToForwarder", c, forwarder,
                connectToForwarder(link, c, forwarder), TRUE)

\* Transport::close on a forwarder transport that is up
ForwarderClose(f) ==
  /\ link.state[f] = "UP"
  /\ LinkCommit("doClose", f, 0, doClose(link, f), link.peer[f] # NoTransport)

\* the global event loop runs its next task
RunLoop ==
  /\ link.loop # <<>>
  /\ \E l \in runTaskOutcomes(link) :
       LinkCommit("run", Head(link.loop).id, Head(link.loop).packet, l, TRUE)

\* a client transport is destroyed
ClientDestroy(c) ==
  /\ link.alive[c]
  /\ LinkCommit("destroy", c, 0, destroyClient(link, c), link.forwarder[c] # NoTransport)

ClientSendStep(clients) == \E c \in clients : ClientSend(c)

ForwarderSendStep(forwarders) == \E f \in forwarders : ForwarderSend(f)

ConnectStep(clients, forwarders) ==
  \E c \in clients : \E f \in forwarders : ClientConnect(c, f)

CloseStep(forwarders) == \E f \in forwarders : ForwarderClose(f)

DestroyStep(clients) == \E c \in clients : ClientDestroy(c)

InitLink ==
  /\ InitBase({FALSE}, {1})
  /\ link = NoLink
  /\ Idle({"link"})

NextLink ==
  \/ ClientSendStep({1})
  \/ ForwarderSendStep(Forwarders)
  \/ ConnectStep({1}, Forwarders \cup {NoTransport})
  \/ CloseStep(Forwarders)
  \/ RunLoop

\* one client and the forwarder transports it is connected to in turn; the
\* event loop of the process keeps running: a posted task is run
SpecLink == InitLink /\ [][NextLink]_vars /\ WF_vars(RunLoop)

\* several clients and forwarder transports: clients are connected,
\* reconnected and destroyed, forwarder transports are closed, packets are
\* sent in both directions and the event loop runs the posted tasks
NextPairing ==
  \/ ClientSendStep(Clients)
  \/ ForwarderSendStep(Forwarders)
  \/ ConnectStep(Clients, Forwarders \cup {NoTransport})
  \/ CloseStep(Forwarders)
  \/ DestroyStep(Clients)
  \/ RunLoop

SpecPairing == InitLink /\ [][NextPairing]_vars

(***************************************************************************)
(* StreamTransportImpl (ndn-cxx stream-transport-impl.hpp).  An            *)
(* asynchronous operation is pending in the socket or the timer until it   *)
(* completes or is cancelled; its completion handler then waits in the     *)
(* io_service with the result and runs later, after the handlers that      *)
(* were ready before it.  Cancelling does not reach an operation that has  *)
(* already completed.                                                      *)
(***************************************************************************)
MaxSends == 2
MaxOps == 3

SocketOps == {"connect", "write", "receive"}

\* an operation is started: on a closed socket it fails at once
startOp(s, kind, item) ==
  IF kind \in SocketOps /\ ~s.open
  THEN [s EXCEPT !.ready = Append(@, [kind |-> kind, item |-> item, error |-> "failed", n |-> 0])]
  ELSE [s EXCEPT !.pending = Append(@, [kind |-> kind, item |-> item])]

\* cancel on the timer or the socket: the pending operations of these kinds
\* complete with operation_canceled, in the order they were started
cancelOps(s, kinds) ==
  LET hit == SelectSeq(s.pending, LAMBDA o : o.kind \in kinds)
      rest == SelectSeq(s.pending, LAMBDA o : o.kind \notin kinds)
  IN  [s EXCEPT !.pending = rest,
                !.ready = @ \o [i \in 1 .. Len(hit) |->
                                  [kind |-> hit[i].kind, item |-> hit[i].item,
                                   error |-> "canceled", n |-> 0]]]

\* StreamTransportImpl::asyncWrite: write the front of the transmission queue;
\* the handler is bound to the iterator of that element
asyncWrite(s) == startOp(s, "write", Head(s.transmissionQueue))

\* StreamTransportImpl::asyncReceive: receive into the free part of the buffer
asyncReceive(s) == startOp(s, "receive", s.inputBufferSize)

\* StreamTransportImpl::connect
connect(s) ==
  IF s.isConnecting THEN s
  ELSE LET s1 == cancelOps([s EXCEPT !.isConnecting = TRUE], {"timer"})
           s2 == startOp(s1, "timer", 0)
       IN  startOp([s2 EXCEPT !.open = TRUE], "connect", 0)

\* StreamTransportImpl::close
close(s) ==
  LET s1 == cancelOps([s EXCEPT !.isConnecting = FALSE], {"timer"})
      s2 == cancelOps(s1, SocketOps)
  IN  [s2 EXCEPT !.open = FALSE, !.isConnected = FALSE, !.isReceiving = FALSE,
                 !.transmissionQueue = <<>>]

\* StreamTransportImpl::pause
pause(s) ==
  IF s.isConnecting THEN s
  ELSE IF s.isReceiving THEN cancelOps([s EXCEPT !.isReceiving = FALSE], SocketOps)
  ELSE s

\* StreamTransportImpl::resume
resume(s) ==
  IF s.isConnecting THEN s
  ELSE IF ~s.isReceiving
  THEN asyncReceive([s EXCEPT !.isReceiving = TRUE, !.inputBufferSize = 0])
  ELSE s

\* StreamTransportImpl::send(BlockSequence&&), the sequence numbered nextItem
streamSend(s) ==
  LET s1 == [s EXCEPT !.transmissionQueue = Append(@, s.nextItem), !.nextItem = @ + 1]
  IN  IF s1.isConnected /\ Len(s1.transmissionQueue) = 1 THEN asyncWrite(s1) ELSE s1

\* StreamTransportImpl::connectHandler; on an error the transport is closed
\* and Transport::Error is thrown
connectHandler(s, error) ==
  LET s1 == cancelOps([s EXCEPT !.isConnecting = FALSE], {"timer"})
  IN  IF error # "ok" THEN close([s1 EXCEPT !.isConnected = FALSE])
      ELSE LET s2 == [s1 EXCEPT !.isConnected = TRUE]
           IN  IF s2.transmissionQueue # <<>> THEN asyncWrite(resume(s2)) ELSE s2

\* StreamTransportImpl::connectTimeoutHandler
connectTimeoutHandler(s, error) == IF error # "ok" THEN s ELSE close(s)

InQueue(q, item) == \E i \in 1 .. Len(q) : q[i] = item

\* m_transmissionQueue.erase(queueItem): the element is removed; an iterator
\* of an element that is no longer in the list is invalid, and erasing it may
\* leave the list as it is or take another element out
erase(q, queueItem) ==
  IF InQueue(q, queueItem) THEN {SelectSeq(q, LAMBDA x : x # queueItem)}
  ELSE {q} \cup {SelectSeq(q, LAMBDA x : x # y) : y \in {q[i] : i \in 1 .. Len(q)}}

\* StreamTransportImpl::handleAsyncWrite: the states it can end in
handleAsyncWrite(s, error, queueItem) ==
  IF error = "canceled" THEN {s}
  ELSE IF error # "ok" THEN {close(s)}
  ELSE IF ~s.isConnected THEN {s}
  ELSE {IF q # <<>> THEN asyncWrite([s EXCEPT !.transmissionQueue = q])
        ELSE [s EXCEPT !.transmissionQueue = q] :
          q \in erase(s.transmissionQueue, queueItem)}

\* The input buffer holds bytes of the incoming stream, each known by its
\* position in the stream (0: a byte never received).  Every element of the
\* stream is ElementSize bytes long.
MAX_NDN_PACKET_SIZE == 4
ElementSize == 2
MaxBytes == 4

byteAt(buffer, i) == IF i \in 1 .. Len(buffer) THEN buffer[i] ELSE 0

\* Block::fromBuffer at an offset: the element decoded there, 0 if the bytes
\* available there are not one whole element
fromBuffer(buffer, offset, nBytesAvailable) ==
  LET first == byteAt(buffer, offset + 1)
  IN  IF /\ nBytesAvailable - offset >= ElementSize
         /\ first > 0
         /\ (first - 1) % ElementSize = 0
         /\ \A j \in 1 .. ElementSize - 1 : byteAt(buffer, offset + 1 + j) = first + j
      THEN (first - 1) \div ElementSize + 1
      ELSE 0

\* StreamTransportImpl::processAllReceived from an offset on: whether the
\* loop ran to the end, the offset it reached, the elements handed to the
\* receive callback
RECURSIVE processAllReceived(_, _, _)
processAllReceived(buffer, offset, nBytesAvailable) ==
  IF offset >= nBytesAvailable THEN [ok |-> TRUE, offset |-> offset, elements |-> <<>>]
  ELSE LET element == fromBuffer(buffer, offset, nBytesAvailable)
       IN  IF element = 0 THEN [ok |-> FALSE, offset |-> offset, elements |-> <<>>]
           ELSE LET rest == processAllReceived(buffer, offset + ElementSize, nBytesAvailable)
                IN  [rest EXCEPT !.elements = <<element>> \o @]

\* std::copy of the undecoded bytes to the start of the buffer
moveToFront(buffer, offset, size) ==
  [i \in 1 .. Len(buffer) |->
     IF i <= size - offset THEN byteAt(buffer, offset + i) ELSE buffer[i]]

\* StreamTransportImpl::handleAsyncReceive
handleAsyncReceive(s, error, nBytesRecvd) ==
  IF error = "canceled" THEN s
  ELSE IF error # "ok" THEN close(s)
  ELSE LET size == s.inputBufferSize + nBytesRecvd
           done == processAllReceived(s.inputBuffer, 0, size)
           s1 == [s EXCEPT !.inputBufferSize = size,
                           !.delivered = @ \o done.elements]
       IN  IF ~done.ok /\ size = MAX_NDN_PACKET_SIZE /\ done.offset = 0 THEN close(s1)
           ELSE IF done.offset > 0 /\ done.offset # size
           THEN asyncReceive([s1 EXCEPT
                   !.inputBuffer = moveToFront(@, done.offset, size),
                   !.inputBufferSize = size - done.offset])
           ELSE IF done.offset > 0 THEN asyncReceive([s1 EXCEPT !.inputBufferSize = 0])
           ELSE asyncReceive(s1)

\* the socket finishes the pending operation at position i: the connection is
\* made, the block sequence is written, or nBytesRecvd bytes of the stream
\* are put into the buffer where the receive was told to put them
completeOp(s, i, nBytesRecvd) ==
  LET o == s.pending[i]
      s1 == [s EXCEPT
               !.pending = SubSeq(@, 1, i - 1) \o SubSeq(@, i + 1, Len(@)),
               !.ready = Append(@, [kind |-> o.kind, item |-> o.item,
                                    error |-> "ok", n |-> nBytesRecvd])]
  IN  IF o.kind = "write" THEN [s1 EXCEPT !.written = Append(@, o.item)]
      ELSE IF o.kind = "receive"
      THEN [s1 EXCEPT
              !.inputBuffer = [j \in 1 .. Len(@) |->
                                 IF j > o.item /\ j <= o.item + nBytesRecvd
                                 THEN s.arrived + (j - o.item) ELSE @[j]],
              !.arrived = @ + nBytesRecvd]
      ELSE s1

\* the socket fails the pending operation at position i
failOp(s, i) ==
  [s EXCEPT !.pending = SubSeq(@, 1, i - 1) \o SubSeq(@, i + 1, Len(@)),
            !.ready = Append(@, [kind |-> s.pending[i].kind, item |-> s.pending[i].item,
                                 error |-> "failed", n |-> 0])]

\* the first pending operation of a kind, 0 if there is none
FirstPending(s, kind) ==
  IF \E i \in 1 .. Len(s.pending) : s.pending[i].kind = kind
  THEN CHOOSE i \in 1 .. Len(s.pending) :
         /\ s.pending[i].kind = kind
         /\ \A j \in 1 .. i - 1 : s.pending[j].kind # kind
  ELSE 0

\* the handler at the head of the io_service queue runs: the states it can
\* end in
runHandler(s) ==
  LET h == Head(s.ready)
      s1 == [s EXCEPT !.ready = Tail(@)]
  IN  IF h.kind = "timer" THEN {connectTimeoutHandler(s1, h.error)}
      ELSE IF h.kind = "connect" THEN {connectHandler(s1, h.error)}
      ELSE IF h.kind = "write" THEN handleAsyncWrite(s1, h.error, h.item)
      ELSE {handleAsyncReceive(s1, h.error, h.n)}

Outstanding(s, kind) ==
  Len(SelectSeq(s.pending, LAMBDA o : o.kind = kind))
    + Len(SelectSeq(s.ready, LAMBDA o : o.kind = kind /\ o.error = "ok"))

StreamCommit(op, item, error, s) ==
  /\ stream' = s
  /\ calls' = <<[Rec(op, 0, NoKey, 0) EXCEPT
                   !.arg = <<item>>, !.ret = <<error>>,
                   !.flag = stream.isConnected,
                   !.sat = stream.isReceiving,
                   !.ok = InQueue(stream.transmissionQueue, item),
                   !.hop = stream.delivered,
                   !.pre = Outstanding(stream, "timer") + Outstanding(stream, "connect"),
                   !.post = Outstanding(s, "timer") + Outstanding(s, "connect")]>>
  /\ UNCHANGED <<cfg, now, faceUp, pit, cs, steps, fib, registry, store, lastUse, link>>

Room == Len(stream.pending) + Len(stream.ready) < MaxOps

\* connect is called on a transport that is being connected or is closed
StreamConnect ==
  /\ stream.isConnecting \/ (~stream.open /\ Room)
  /\ StreamCommit("connect", 0, IF stream.isConnecting THEN "again" ELSE "ok", connect(stream))

StreamClose == StreamCommit("close", 0, "ok", close(stream))

StreamPause == StreamCommit("pause", 0, "ok", pause(stream))

StreamResume ==
  /\ Room
  /\ StreamCommit("resume", 0, "ok", resume(stream))

StreamSend ==
  /\ stream.nextItem <= MaxSends
  /\ Room
  /\ StreamCommit("send", stream.nextItem, "ok", streamSend(stream))

\* the timer expires, or the socket finishes its first operation of a kind
Complete ==
  \E kind \in {"timer", "connect", "write"} :
    /\ FirstPending(stream, kind) # 0
    /\ StreamCommit("complete", 0, kind, completeOp(stream, FirstPending(stream, kind), 0))

\* bytes of the stream arrive for the first pending receive
Arrive ==
  /\ FirstPending(stream, "receive") # 0
  /\ LET i == FirstPending(stream, "receive")
         room == Min(MAX_NDN_PACKET_SIZE - stream.pending[i].item, MaxBytes - stream.arrived)
     IN  \E nBytesRecvd \in (IF MAX_NDN_PACKET_SIZE = stream.pending[i].item THEN {0} ELSE {})
                              \cup 1 .. room :
           StreamCommit("arrive", nBytesRecvd, "receive", completeOp(stream, i, nBytesRecvd))

\* the socket reports an error for its first operation of a kind
Fail ==
  \E kind \in SocketOps :
    /\ FirstPending(stream, kind) # 0
    /\ StreamCommit("fail", 0, kind, failOp(stream, FirstPending(stream, kind)))

HandlerOf(kind) ==
  IF kind = "timer" THEN "connectTimeoutHandler"
  ELSE IF kind = "connect" THEN "connectHandler"
  ELSE IF kind = "write" THEN "handleAsyncWrite"
  ELSE "handleAsyncReceive"

RunHandler ==
  /\ stream.ready # <<>>
  /\ \E s \in runHandler(stream) :
       StreamCommit(HandlerOf(Head(stream.ready).kind), Head(stream.ready).item,
                    Head(stream.ready).error, s)

InitStream ==
  /\ InitBase({FALSE}, {1})
  /\ stream = [NoStream EXCEPT !.inputBuffer = [i \in 1 .. MAX_NDN_PACKET_SIZE |-> 0]]
  /\ Idle({"stream"})

\* connecting, sending and writing
NextStream ==
  \/ StreamConnect
  \/ StreamClose
  \/ StreamPause
  \/ StreamResume
  \/ StreamSend
  \/ Complete
  \/ Fail
  \/ RunHandler

SpecStream == InitStream /\ [][NextStream]_vars

\* connecting and receiving
NextReceive ==
  \/ StreamConnect
  \/ StreamClose
  \/ StreamPause
  \/ StreamResume
  \/ Complete
  \/ Arrive
  \/ Fail
  \/ RunHandler

SpecReceive == InitStream /\ [][NextReceive]_vars

(***************************************************************************)
(* General status (forwarder-status-remote-manager.cpp)                    *)
(***************************************************************************)
MaxCount == 2

TableFields == {"nNameTree", "nFib", "nPit", "nM", "nCs"}

CounterFields ==
  {"nInInterests", "nOutInterests", "nInData", "nOutData", "nInNacks", "nOutNacks",
   "nSatisfiedInterests", "nUnsatisfiedInterests"}

StatusFields == TableFields \cup CounterFields

\* what one forwarder holds: the sizes of its tables and its counters; in
\* the forwarders tried here at most one of them is not zero
ForwarderStates ==
  {[f \in StatusFields |-> IF f = g THEN n ELSE 0] :
     g \in StatusFields, n \in 0 .. MaxCount}

\* the loop over the workers, from worker i on
RECURSIVE addWorkers(_, _, _)
addWorkers(sum, workers, i) ==
  IF i > Len(workers) THEN sum
  ELSE addWorkers([f \in StatusFields |-> sum[f] + workers[i][f]], workers, i + 1)

\* ForwarderStatusRemoteManager::collectGeneralStatus without
\* ETRI_NFD_ORG_ARCH: the local sums as initialised, then the main forwarder,
\* then the workers
collectGeneralStatus(forwarder, workers) ==
  LET initial == [f \in StatusFields |-> IF f = "nFib" THEN forwarder.nFib ELSE 0]
      withMain == [f \in StatusFields |-> initial[f] + forwarder[f]]
  IN  addWorkers(withMain, workers, 1)

CollectGeneralStatus ==
  /\ steps = 0
  /\ \E forwarder \in ForwarderStates : \E workers \in [1 .. NumWorkers -> ForwarderStates] :
       calls' = <<[Rec("collectGeneralStatus", 0, NoKey, 0) EXCEPT
                     !.arg = <<forwarder>> \o workers,
                     !.ret = <<collectGeneralStatus(forwarder, workers)>>]>>
  /\ steps' = 1
  /\ UNCHANGED <<cfg, now, faceUp, pit, cs, tables>>

InitStatus ==
  /\ InitBase({FALSE}, {1})
  /\ Idle({})

NextStatus == CollectGeneralStatus

SpecStatus == InitStatus /\ [][NextStatus]_vars

(***************************************************************************)
(* Reading the log                                                         *)
(***************************************************************************)
CallIdx == 1 .. Len(calls)

\* the sendData calls made by the sendDataToAll call at index i: the run of
\* sendData records that follows it
SentBy(i) ==
  {j \in CallIdx : j > i /\ \A m \in (i + 1) .. j : calls[m].op = "sendData"}

\* how many of the calls js went to face f
TimesSentTo(js, f) == Cardinality({j \in js : calls[j].face = f})

(***************************************************************************)
(* C1                                                                      *)
(***************************************************************************)
\* C1 as stated: on every calling path, whenever sendData hands a Data to the
\* outgoing Data pipeline for entry E and face F, E holds an in-record for F
\* at the moment of the call.
C1_InRecordOnEveryPath ==
  \A i \in CallIdx : calls[i].op = "sendData" => calls[i].flag

\* C1 amended: every sendData call made by sendDataToAll (and so by the
\* default afterReceiveData) finds an in-record for its egress face in the
\* entry at the moment of the call.
C1_InRecordWhenSentToAll ==
  \A i \in CallIdx :
    calls[i].op = "sendDataToAll" => \A j \in SentBy(i) : calls[j].flag

\* sendDataToAll has sent to two downstreams, each holding an in-record
C1_Witness ==
  \E i \in CallIdx :
    /\ calls[i].op = "sendDataToAll"
    /\ Cardinality(SentBy(i)) = 2
    /\ \A j \in SentBy(i) : calls[j].flag

(***************************************************************************)
(* C2                                                                      *)
(***************************************************************************)
\* C2: in every reachable state, every PIT entry holds at most one in-record
\* and at most one out-record per face.
C2_OneRecordPerFace ==
  \A w \in Workers, k \in Keys, f \in Faces :
    /\ CountFace(pit[w][k].inRecords, f) <= 1
    /\ CountFace(pit[w][k].outRecords, f) <= 1

\* an Interest has refreshed an existing in-record and been forwarded again,
\* in an entry with two in-records and an out-record
C2_Witness ==
  \E w \in Workers, k \in Keys :
    /\ Len(pit[w][k].inRecords) = 2
    /\ Len(pit[w][k].outRecords) = 1
    /\ \E i \in CallIdx :
         /\ calls[i].op = "afterReceiveInterest" /\ calls[i].flag
         /\ calls[i].wid = w /\ calls[i].key = k
    /\ \E i \in CallIdx : calls[i].op = "sendInterest" /\ calls[i].ok

(***************************************************************************)
(* C7                                                                      *)
(***************************************************************************)
\* C7: after sendData(pitEntry, data, egress) returns, pitEntry has no
\* in-record for egress, whether the Data was sent or dropped; the in-records
\* of all other faces and all out-records are unchanged.
C7_SendDataFrame ==
  [][\A w \in Workers, k \in Keys, egress \in Faces :
       StrategySendData(w, k, egress) =>
         /\ FindRecord(pit'[w][k].inRecords, egress) = 0
         /\ \A g \in Faces \ {egress} :
              RecordsOf(pit'[w][k].inRecords, g) = RecordsOf(pit[w][k].inRecords, g)
         /\ pit'[w][k].outRecords = pit[w][k].outRecords]_vars

\* sendData was called for a face that is down and had an in-record, in an
\* entry with an out-record: the Data was dropped
C7_Witness ==
  /\ Len(calls) = 2
  /\ calls[1].op = "strategy"
  /\ calls[2].op = "sendData" /\ calls[2].flag /\ ~calls[2].ok
  /\ pit[calls[2].wid][calls[2].key].outRecords # <<>>

(***************************************************************************)
(* C8                                                                      *)
(***************************************************************************)
\* C8 as stated: sendDataToAll invokes sendData exactly once for each face
\* that has an in-record and is either ad-hoc or different from inFace, and
\* for no other face.
C8_OncePerInRecord ==
  \A i \in CallIdx :
    calls[i].op = "sendDataToAll" =>
      \A f \in Faces :
        TimesSentTo(SentBy(i), f) =
          IF f \in calls[i].faces /\ (IsAdHoc(f) \/ f # calls[i].face) THEN 1 ELSE 0

\* C8 amended: sendDataToAll invokes sendData exactly once for each face
\* that has an unexpired in-record (expiry later than now) and is either
\* ad-hoc or different from inFace, and for no other face.
C8_OncePerLiveInRecord ==
  \A i \in CallIdx :
    calls[i].op = "sendDataToAll" =>
      \A f \in Faces :
        TimesSentTo(SentBy(i), f) =
          IF f \in calls[i].live /\ (IsAdHoc(f) \/ f # calls[i].face) THEN 1 ELSE 0

\* sendDataToAll ran on an entry with an expired and an unexpired in-record
\* and sent the Data
C8_Witness ==
  \E i \in CallIdx :
    /\ calls[i].op = "sendDataToAll"
    /\ calls[i].live # calls[i].faces
    /\ SentBy(i) # {}

(***************************************************************************)
(* C3                                                                      *)
(***************************************************************************)
\* the last handler dispatched a Data
DataDispatched == calls # <<>> /\ calls[1].op = "dispatchData"

\* the entries (worker, key) whose Interest was forwarded to face f and is
\* satisfied by a Data named dname
ForwardedTo(f, dname) ==
  {e \in Workers \X Keys :
     /\ pit[e[1]][e[2]].present
     /\ MatchesData(e[2], dname)
     /\ FindRecord(pit[e[1]][e[2]].outRecords, f) # 0}

\* the PitToken the Interest of entry e went out with on face f
SentTok(e, f) ==
  LET recs == pit[e[1]][e[2]].outRecords IN recs[FindRecord(recs, f)].sentTok

\* C3 as stated: a Data that satisfies an Interest dispatched to worker w and
\* forwarded upstream is dispatched to w, both when it carries the echoed
\* PitToken and when it carries none, also when the Interest has CanBePrefix
\* and the Data name is longer.
C3_DataToOwningWorker ==
  DataDispatched =>
    \A e \in ForwardedTo(calls[1].face, calls[1].key[1]) :
      (calls[1].tok = NoTok \/ calls[1].tok = SentTok(e, calls[1].face))
        => calls[1].wid = e[1]

\* C3 amended: such a Data is dispatched to w when it carries the echoed
\* PitToken, and when it carries no PitToken provided that the Interest's
\* name equals the Data name or has at least as many components as the
\* configured dispatch prefix.
C3_DataToOwningWorkerByTokenOrPrefix ==
  DataDispatched =>
    \A e \in ForwardedTo(calls[1].face, calls[1].key[1]) :
      \/ calls[1].tok # NoTok /\ calls[1].tok = SentTok(e, calls[1].face)
      \/ /\ calls[1].tok = NoTok
         /\ (Len(e[2][1]) >= cfg.prefixLen \/ e[2][1] = calls[1].key[1])
      => calls[1].wid = e[1]

\* a Data with the echoed token reached the worker owning the entry although
\* its name hashes to another worker
C3_Witness ==
  /\ DataDispatched
  /\ calls[1].tok # NoTok
  /\ NameHash(DispatchPrefix(calls[1].key[1])) % NumWorkers # calls[1].wid
  /\ \E e \in ForwardedTo(calls[1].face, calls[1].key[1]) :
       calls[1].tok = SentTok(e, calls[1].face) /\ calls[1].wid = e[1]

(***************************************************************************)
(* C4                                                                      *)
(***************************************************************************)
\* C4: every Interest that sendInterest passes to the outgoing Interest
\* pipeline carries a PitToken whose workerId equals the worker id stamped on
\* the PIT entry, whether or not the Interest received carried a PitToken.
C4_TokenOnEveryInterest ==
  \A i \in CallIdx :
    calls[i].op = "sendInterest" =>
      IsFwTok(calls[i].tok) /\ calls[i].tok[2] = calls[i].wid

(***************************************************************************)
(* C5                                                                      *)
(***************************************************************************)
\* C5: the Interest object passed to sendInterest has the same PitToken tag,
\* or the same absence of one, after the call as before it.
C5_OriginalInterestKeepsTag ==
  \A i \in CallIdx : calls[i].op = "sendInterest" => calls[i].post = calls[i].pre

(***************************************************************************)
(* C6                                                                      *)
(***************************************************************************)
\* C6: the Data sent by sendData to face F carries exactly the PitToken that
\* F's in-record Interest carried when it was received, and none when that
\* Interest carried none or no in-record exists.
C6_DataCarriesDownstreamToken ==
  \A i \in CallIdx : calls[i].op = "sendData" => calls[i].tok = calls[i].pre

(***************************************************************************)
(* C9                                                                      *)
(***************************************************************************)
\* the calls of the last handler with operation op for the entry of key k
CallsFor(op, k) == {i \in CallIdx : calls[i].op = op /\ calls[i].key = k}

\* the entries the Data of the last handler satisfied
Satisfied == PitMatches(pit[calls[1].wid], calls[1].key[1])

\* C9: for every PIT entry satisfied by an incoming Data,
\* beforeSatisfyInterest is invoked exactly once for that entry and before
\* any sendData for that entry, whether the Data satisfies one entry or
\* several.
C9_BeforeSatisfyOnceAndFirst ==
  DataDispatched =>
    \A k \in Satisfied :
      /\ Cardinality(CallsFor("beforeSatisfyInterest", k)) = 1
      /\ \A j \in CallsFor("sendData", k) :
           \E i \in CallsFor("beforeSatisfyInterest", k) : i < j

\* one Data satisfied two entries and was sent to a downstream of each
C9_Witness ==
  /\ DataDispatched
  /\ Cardinality(Satisfied) = 2
  /\ \A k \in Satisfied : CallsFor("sendData", k) # {}

(***************************************************************************)
(* C10                                                                     *)
(***************************************************************************)
\* C10 as stated: afterReceiveNack is invoked only if the entry has an
\* out-record for the ingress face holding the Nack header, the nonces are
\* equal, and the entry is not yet satisfied.
C10_TriggerOnlyIfUnsatisfied ==
  \A i \in CallIdx :
    calls[i].op = "afterReceiveNack" =>
      calls[i].flag /\ calls[i].ok /\ ~calls[i].sat

\* the Nack (f, nonce) answers the last Interest the entry forwarded to f
NackConfirmed(e, f, nonce) ==
  /\ e.present
  /\ FindRecord(e.outRecords, f) # 0
  /\ e.outRecords[FindRecord(e.outRecords, f)].nonce = nonce

\* C10 amended: afterReceiveNack is invoked, once, exactly when the entry has
\* an out-record for the ingress face and the Nack's nonce equals that
\* out-record's last nonce, whether or not the entry is satisfied; the header
\* is then already stored in the out-record.  A Nack failing either condition
\* changes no PIT state and triggers nothing.
C10_TriggerIffConfirmed ==
  [][(steps' = steps + 1 /\ calls'[1].op = "dispatchNack") =>
       LET h == calls'[1] IN
         IF NackConfirmed(pit[h.wid][h.key], h.face, h.nonce)
         THEN /\ Len(calls') = 2
              /\ calls'[2].op = "afterReceiveNack"
              /\ calls'[2].flag
              /\ calls'[2].ok
         ELSE /\ pit' = pit
              /\ \A i \in 1 .. Len(calls') : calls'[i].op # "afterReceiveNack"]_vars

\* the trigger ran for an entry that a Data had already satisfied
C10_Witness ==
  \E i \in CallIdx :
    /\ calls[i].op = "afterReceiveNack"
    /\ calls[i].flag /\ calls[i].ok /\ calls[i].sat

(***************************************************************************)
(* C11                                                                     *)
(***************************************************************************)
\* C11: sendNack(pitEntry, egress, header) has no effect and returns false
\* when pitEntry has no in-record for egress; when the in-record exists the
\* Nack is sent, that in-record is deleted and no other record changes.
C11_SendNackFrame ==
  [][\A w \in Workers, k \in Keys, egress \in Faces :
       StrategySendNack(w, k, egress) =>
         IF FindRecord(pit[w][k].inRecords, egress) = 0
         THEN pit' = pit /\ ~calls'[2].ok
         ELSE /\ calls'[2].ok
              /\ FindRecord(pit'[w][k].inRecords, egress) = 0
              /\ \A g \in Faces \ {egress} :
                   RecordsOf(pit'[w][k].inRecords, g) = RecordsOf(pit[w][k].inRecords, g)
              /\ pit'[w][k].outRecords = pit[w][k].outRecords
              /\ \A v \in Workers, j \in Keys :
                   <<v, j>> # <<w, k>> => pit'[v][j] = pit[v][j]]_vars

\* a Nack was sent to one of the two downstreams of an entry
C11_Witness ==
  /\ Len(calls) = 2
  /\ calls[1].op = "strategy"
  /\ calls[2].op = "onOutgoingNack" /\ calls[2].ok
  /\ Len(pit[calls[2].wid][calls[2].key].inRecords) = 1
  /\ FindRecord(pit[calls[2].wid][calls[2].key].inRecords, calls[2].face) = 0

(***************************************************************************)
(* C12                                                                     *)
(***************************************************************************)
\* the sendNack calls made by the sendNacks call at index i
NackedBy(i) ==
  {j \in CallIdx : j > i /\ \A m \in (i + 1) .. j : calls[m].op = "onOutgoingNack"}

\* C12: sendNacks invokes sendNack exactly once for every face that has an
\* in-record at the time of the call and is not in exceptFaces, and for no
\* other face; the in-records of the faces in exceptFaces are left in place.
C12_NackOncePerDownstream ==
  \A i \in CallIdx :
    calls[i].op = "sendNacks" =>
      /\ \A f \in Faces :
           TimesSentTo(NackedBy(i), f) =
             IF f \in calls[i].live \ calls[i].faces THEN 1 ELSE 0
      /\ \A f \in calls[i].live \cap calls[i].faces :
           FindRecord(pit[calls[i].wid][calls[i].key].inRecords, f) # 0
      /\ \A f \in calls[i].live \ calls[i].faces :
           FindRecord(pit[calls[i].wid][calls[i].key].inRecords, f) = 0

\* sendNacks ran on an entry with in-records on two faces, one of them excepted
C12_Witness ==
  \E i \in CallIdx :
    /\ calls[i].op = "sendNacks"
    /\ Cardinality(calls[i].live) = 2
    /\ calls[i].live \cap calls[i].faces # {}
    /\ Cardinality(NackedBy(i)) = 1

(***************************************************************************)
(* Expiry of PIT entries                                                   *)
(***************************************************************************)
\* the handler that just ran is the strategy giving up entry k of worker w
RejectedLast(w, k) ==
  /\ Len(calls) = 2
  /\ calls[2].op = "rejectPendingInterest"
  /\ calls[2].wid = w
  /\ calls[2].key = k

\* the expiry timer of the entry is due
Due(w, k) == pit[w][k].present /\ pit[w][k].expiry <= now

\* this step is the arrival of a Data that no PIT entry of its worker matches
DataWithoutEntry ==
  /\ steps' = steps + 1
  /\ calls'[1].op = "dispatchData"
  /\ PitMatches(pit[calls'[1].wid], calls'[1].key[1]) = {}

\* the Data is handled as unsolicited: nothing is satisfied or cached
TreatedAsUnsolicited ==
  /\ Len(calls') = 2
  /\ calls'[2].op = "unsolicited"
  /\ pit' = pit
  /\ cs' = cs

C14_ExpiryIsMaxOfInRecords ==
  \A w \in Workers, k \in Keys :
    (pit[w][k].present /\ pit[w][k].inRecords # <<>> /\ ~pit[w][k].satisfied)
      => pit[w][k].expiry = MaxExpiry(pit[w][k].inRecords)

\* C14: when the incoming Interest pipeline has inserted or refreshed an
\* in-record and handed the Interest to the strategy, the entry's expiry time
\* is the maximum of its in-records' expiry times (a later setExpiryTimer,
\* rejectPendingInterest, sendNack or sendData may move it away from that
\* maximum); an entry is erased only when its expiry time has passed, a due
\* entry is eventually erased unless it is re-armed first, and Data arriving
\* when no entry matches is unsolicited
C14_ExpiryIsMaxWhenInterestArrives ==
  /\ [](\A i \in CallIdx :
          calls[i].op = "afterReceiveInterest" =>
            LET e == pit[calls[i].wid][calls[i].key]
            IN e.present /\ e.inRecords # <<>> /\ e.expiry = MaxExpiry(e.inRecords))
  /\ [][\A w \in Workers, k \in Keys :
          (pit[w][k].present /\ ~pit'[w][k].present) => pit[w][k].expiry <= now]_vars
  /\ \A w \in Workers, k \in Keys :
       Due(w, k) ~> (~pit[w][k].present \/ pit[w][k].expiry > now)
  /\ [][DataWithoutEntry => TreatedAsUnsolicited]_vars

\* an Interest has just arrived at an entry whose in-records expire at
\* different times: the entry waits for the later one
C14_Witness ==
  \E i \in CallIdx :
    /\ calls[i].op = "afterReceiveInterest"
    /\ LET e == pit[calls[i].wid][calls[i].key]
       IN /\ ~e.satisfied
          /\ \E a, b \in 1 .. Len(e.inRecords) :
               e.inRecords[a].expiry < e.inRecords[b].expiry
          /\ e.expiry = MaxExpiry(e.inRecords)

(***************************************************************************)
(* Violation checks of the incoming Interest pipeline                      *)
(***************************************************************************)
\* this step is the arrival of an Interest
InterestArrives == steps' = steps + 1 /\ calls'[1].op = "dispatchInterest"

\* the strategy trigger ran in this step
TriggerInvoked ==
  \E i \in 1 .. Len(calls') : calls'[i].op = "afterReceiveInterest"

\* the arriving Interest repeats the nonce of an in-record for face g
SameNonceOn(g) ==
  LET e == pit[calls'[1].wid][calls'[1].key]
  IN \E i \in 1 .. Len(e.inRecords) :
       e.inRecords[i].face = g /\ e.inRecords[i].nonce = calls'[1].nonce

\* the arriving Interest is one the violation checks let through
PassesChecks ==
  /\ calls'[1].hop # <<0>>
  /\ (calls'[1].face \in LocalFaces) = calls'[1].flag

\* the Content Store of the worker can satisfy the arriving Interest, and the
\* entry has no in-record that would skip the lookup
SatisfiedByCs ==
  /\ pit[calls'[1].wid][calls'[1].key].inRecords = <<>>
  /\ \E d \in cs[calls'[1].wid] : MatchesData(calls'[1].key, d)

\* C15: afterReceiveInterest runs only for an Interest whose HopLimit is not
\* zero, that is in scope, not looped and not satisfied by the Content Store;
\* a nonce already seen on another face of the entry is answered with
\* Nack(Duplicate) to the ingress face and leaves the PIT as it was; the same
\* nonce seen again on the same face only is a refresh of that face's in-record
C15_TriggerOnlyAfterChecks ==
  [][InterestArrives =>
       LET w == calls'[1].wid
           k == calls'[1].key
           f == calls'[1].face
           looped == \E g \in Faces \ {f} : SameNonceOn(g)
       IN /\ TriggerInvoked => (PassesChecks /\ ~looped /\ ~SatisfiedByCs)
          /\ (PassesChecks /\ looped) =>
               /\ Len(calls') = 2
               /\ calls'[2].op = "nackDuplicate"
               /\ calls'[2].face = f
               /\ pit' = pit
          /\ (PassesChecks /\ ~looped /\ SameNonceOn(f)) =>
               /\ TriggerInvoked
               /\ calls'[2].op = "afterReceiveInterest" /\ calls'[2].flag
               /\ CountFace(pit'[w][k].inRecords, f) = 1
               /\ Len(pit'[w][k].inRecords) = Len(pit[w][k].inRecords)]_vars

\* the entry has in-records for both downstream faces with different nonces
\* and the Interest that just arrived repeated the other face's nonce
C15_Witness ==
  /\ Len(calls) = 2
  /\ calls[1].op = "dispatchInterest"
  /\ calls[2].op = "nackDuplicate"
  /\ LET e == pit[calls[1].wid][calls[1].key]
     IN /\ Len(e.inRecords) = 2
        /\ e.inRecords[1].nonce # e.inRecords[2].nonce
        /\ \E i \in 1 .. 2 : /\ e.inRecords[i].face # calls[1].face
                             /\ e.inRecords[i].nonce = calls[1].nonce

(***************************************************************************)
(* FIB lookup                                                              *)
(***************************************************************************)
\* the FIB prefixes with an entry that are prefixes of name
RoutesOf(name) == {p \in DOMAIN fib \ {<<>>} : IsPrefixOf(p, name)}

\* what a longest-prefix match of name has to return
LongestRoute(name) ==
  IF RoutesOf(name) = {} THEN <<<<>>, fib[<<>>]>>
  ELSE LET p == CHOOSE x \in RoutesOf(name) : \A y \in RoutesOf(name) : Len(y) <= Len(x)
       IN <<p, fib[p]>>

\* the handler that just ran is a lookupFib
LookedUp == calls # <<>> /\ calls[1].op = "lookupFib"

\* C16: without a forwarding hint lookupFib returns the entry of the longest
\* FIB prefix of the Interest's name, and the root entry when no FIB prefix
\* is a prefix of the name
C16_LongestPrefixOfName ==
  (LookedUp /\ calls[1].arg[2] = <<>>) =>
     LET name == calls[1].arg[1]
         ret == calls[1].ret
     IN /\ ret[2] = fib[ret[1]]
        /\ IF RoutesOf(name) = {} THEN ret[1] = <<>>
           ELSE /\ ret[1] \in RoutesOf(name)
                /\ \A q \in RoutesOf(name) : Len(q) <= Len(ret[1])

\* two FIB prefixes match the name and the longer one is returned
C16_Witness ==
  /\ LookedUp
  /\ calls[1].arg[2] = <<>>
  /\ Cardinality(RoutesOf(calls[1].arg[1])) = 2
  /\ calls[1].ret[1] = <<2, 1>>
  /\ calls[1].arg[1] = <<2, 1, 1>>

\* C17: with a forwarding hint lookupFib goes through the delegations in list
\* order and returns the longest-prefix match of the first delegation whose
\* match has a next hop; when no delegation finds a next hop it returns the
\* empty root entry; the Interest's own name plays no part in the result
C17_FirstDelegationWithNextHop ==
  (LookedUp /\ calls[1].arg[2] # <<>>) =>
     LET fh == calls[1].arg[2]
         ret == calls[1].ret
         hits == {i \in 1 .. Len(fh) : LongestRoute(fh[i])[2] # {}}
     IN /\ IF hits = {} THEN ret = <<<<>>, {}>>
           ELSE ret = LongestRoute(fh[CHOOSE i \in hits : \A j \in hits : i <= j])
        /\ \A other \in LookupNames : lookupFib(other, fh) = ret

\* the first delegation finds no next hop, the second does, and the
\* Interest's own name has a route of its own that is not used
C17_Witness ==
  /\ LookedUp
  /\ Len(calls[1].arg[2]) = 2
  /\ LongestRoute(calls[1].arg[2][1])[2] = {}
  /\ LongestRoute(calls[1].arg[2][2])[2] # {}
  /\ calls[1].ret = LongestRoute(calls[1].arg[2][2])
  /\ RoutesOf(calls[1].arg[1]) # {}
  /\ LongestRoute(calls[1].arg[1]) # calls[1].ret

(***************************************************************************)
(* Strategy registry                                                       *)
(***************************************************************************)
\* position of the last version component of a name, 0 when it has none
LastVersionAt(n) ==
  LET at == {i \in 1 .. Len(n) : IsVersion(n[i])}
  IN IF at = {} THEN 0 ELSE CHOOSE i \in at : \A j \in at : j <= i

\* the registered versions of the strategy named prog
VersionsOf(prog) == {x \in registry : DropLast(x) = prog}

\* the handlers that just ran
Found == calls # <<>> /\ calls[1].op = "find"
Parsed == calls # <<>> /\ calls[1].op = "parseInstanceName"

C19_HighestVersion ==
  (Found /\ LastVersionAt(calls[1].arg) = 0) =>
     LET all == VersionsOf(calls[1].arg)
     IN IF all = {} \/ calls[1].arg = <<>> THEN calls[1].ret = RegistryEnd
        ELSE /\ calls[1].ret \in all
             /\ \A y \in all : toVersion(y[Len(y)]) <= toVersion(calls[1].ret[Len(calls[1].ret)])

\* C20: parseInstanceName splits the input at its last version component,
\* wherever that is, the first component included; without a version
\* component the whole input is the strategy name
C20_SplitAtLastVersion ==
  Parsed =>
     LET input == calls[1].arg
         pos == LastVersionAt(input)
     IN calls[1].ret =
          IF pos = 0 THEN <<input, <<>>, <<>>>>
          ELSE <<SubSeq(input, 1, pos), <<toVersion(input[pos])>>,
                 SubSeq(input, pos + 1, Len(input))>>

\* the handlers that just ran
Created == calls # <<>> /\ calls[1].op = "create"
MadeName == calls # <<>> /\ calls[1].op = "makeInstanceName"
Compared == calls # <<>> /\ calls[1].op = "areSameType"

C22_MakeInstanceNameIdempotent ==
  MadeName =>
     LET input == calls[1].arg[1]
         strategyName == calls[1].arg[2]
         ret == calls[1].ret
     IN /\ ret = IF LastVersionAt(input) # 0 THEN input
                 ELSE input \o <<strategyName[Len(strategyName)]>>
        /\ makeInstanceName(ret, strategyName) = ret

\* a name without a version got the version of the strategy name appended
C22_Witness ==
  /\ MadeName
  /\ LastVersionAt(calls[1].arg[1]) = 0
  /\ Len(calls[1].ret) = Len(calls[1].arg[1]) + 1
  /\ IsVersion(calls[1].ret[Len(calls[1].ret)])

\* C23: areSameType(A, B) is true exactly when A and B both find a registered
\* strategy and find the same one; it is not true for two names neither of
\* which can create a strategy
C23_SameTypeIffBothCreateSame ==
  Compared =>
     (calls[1].flag <=>
        /\ canCreate(calls[1].arg[1])
        /\ canCreate(calls[1].arg[2])
        /\ find(calls[1].arg[1]) = find(calls[1].arg[2]))

(***************************************************************************)
(* Content Store                                                           *)
(***************************************************************************)
\* C24: after every Content Store and Policy operation, in any order, each
\* view holds at most limit entries; this includes setLimit(n) with n below
\* and above the limit before
C24_SizeWithinLimit ==
  /\ Cardinality(store.table) <= store.limit
  /\ Cardinality(store.tableExact) <= store.limit
  /\ (calls # <<>> /\ calls[1].op = "setLimit") =>
        /\ store.limit = calls[1].arg[2]
        /\ Cardinality(store.table) <= calls[1].arg[2]
        /\ Cardinality(store.tableExact) <= calls[1].arg[2]

\* setLimit has just cut a Content Store down to one entry in both views,
\* below the caps of the views
C24_Witness ==
  /\ calls # <<>>
  /\ calls[1].op = "setLimit"
  /\ store.limit = 1
  /\ store.pmLimit = 2
  /\ store.emLimit = 2
  /\ calls[1].ret = <<2, 2>>
  /\ Cardinality(store.table) = 1
  /\ Cardinality(store.tableExact) = 1

\* C25 as stated: with dual-CS the exact-match view and the prefix-match view
\* hold the same Data names after any sequence of operations
C25_ViewsHoldSameNames == cfg.dualCs => store.table = store.tableExact

\* this step is a Content Store operation op
StoreOp(op) == calls' # <<>> /\ calls'[1].op = op /\ store' # store

\* C25: with dual-CS an insert puts the Data into both views and an erase
\* removes it from both; each view is kept under the limit and under its own
\* cap, so after evictions the two views may hold different names; an insert
\* into equal views that are both below their caps keeps them equal
C25_ViewsUnderOwnCaps ==
  /\ [](cfg.dualCs =>
          /\ Cardinality(store.table) <= Min(store.limit, store.pmLimit)
          /\ Cardinality(store.tableExact) <= Min(store.limit, store.emLimit)
          /\ (calls # <<>> /\ calls[1].op = "insert") =>
                /\ calls[1].arg[1] \in store.table
                /\ calls[1].arg[1] \in store.tableExact
          /\ (calls # <<>> /\ calls[1].op = "erase") =>
                /\ calls[1].arg[1] \notin store.table
                /\ calls[1].arg[1] \notin store.tableExact)
  /\ [][(/\ cfg.dualCs
         /\ StoreOp("insert")
         /\ store.table = store.tableExact
         /\ Cardinality(store.table) < Min(store.limit, Min(store.pmLimit, store.emLimit)))
        => store'.table = store'.tableExact]_vars

\* the prefix-match view is capped at one entry, the exact-match view at two:
\* after an insert the exact-match view holds a name the other has evicted
C25_Witness ==
  /\ cfg.dualCs
  /\ calls # <<>>
  /\ calls[1].op = "insert"
  /\ store.pmLimit = 1
  /\ store.emLimit = 2
  /\ store.limit = 2
  /\ Cardinality(store.table) = 1
  /\ Cardinality(store.tableExact) = 2
  /\ store.table \subseteq store.tableExact

\* the entries this step evicts from the prefix-match view
Evicted ==
  IF calls' # <<>> /\ calls'[1].op \in {"insert", "setLimit", "setPmLimit"}
  THEN store.table \ store'.table
  ELSE {}

\* the entries that were stored before this step, are still stored after it
\* and were not used by it
KeptUnused ==
  (store.table \cap store'.table) \ (IF calls'[1].op = "insert" THEN {calls'[1].arg[1]} ELSE {})

\* C26: under LRU the entry evicted is the one whose most recent insert,
\* refresh or read hit is the oldest, and each stored entry appears exactly
\* once in the LRU queue (which runs from least to most recently used)
C26_EvictsLeastRecentlyUsed ==
  /\ [](/\ Len(store.queue) = Cardinality(store.table)
        /\ {store.queue[i] : i \in 1 .. Len(store.queue)} = store.table
        /\ \A i, j \in 1 .. Len(store.queue) :
              i < j => lastUse.pm[store.queue[i]] < lastUse.pm[store.queue[j]])
  /\ [][\A e \in Evicted : \A k \in KeptUnused : lastUse.pm[e] < lastUse.pm[k]]_vars

\* limit 3; 1, 2, 3 were stored and 1 was used after 2; the insert of 4 into
\* the full store has evicted 2 and left 3, 1, 4 in this order
C26_Witness ==
  /\ calls # <<>>
  /\ calls[1].op = "insert"
  /\ calls[1].arg[1] = 4
  /\ calls[1].ret[1] = 3
  /\ store.limit = 3
  /\ store.pmLimit = 3
  /\ store.queue = <<3, 1, 4>>
  /\ store.table = {1, 3, 4}

\* the packets a transport has received, and where packet p was received
ReceivedSeqs ==
  {link.atForwarder[f] : f \in Forwarders} \cup {link.atClient[c] : c \in Clients}

TimesReceived(p) ==
  Cardinality({<<"forwarder", f, i>> : f \in Forwarders, i \in 1 .. MaxPackets + 1} \cap
              {x \in {"forwarder"} \X Forwarders \X (1 .. MaxPackets + 1) :
                 x[3] <= Len(link.atForwarder[x[2]]) /\ link.atForwarder[x[2]][x[3]] = p})
  + Cardinality({x \in {"client"} \X Clients \X (1 .. MaxPackets + 1) :
                 x[3] <= Len(link.atClient[x[2]]) /\ link.atClient[x[2]][x[3]] = p})

InSeq(p, q) == \E i \in 1 .. Len(q) : q[i] = p

\* the last operation handed packet p to client c, which had forwarder f
SentToForwarder(p, f) ==
  /\ calls # <<>>
  /\ calls[1].op = "send"
  /\ calls[1].flag
  /\ calls[1].arg[2] = p
  /\ link.forwarder[calls[1].arg[1]] = f

\* the last operation handed packet p to a forwarder transport with peer c
SentToClient(p, c) ==
  /\ calls # <<>>
  /\ calls[1].op = "doSend"
  /\ calls[1].flag
  /\ calls[1].arg[2] = p
  /\ link.peer[calls[1].arg[1]] = c

\* C27: packets handed to send or doSend while the pair is connected reach the
\* peer's receive path in the order they were handed over, each exactly once
C27_DeliveredInOrderOnce ==
  /\ [](\A q \in ReceivedSeqs : \A i, j \in 1 .. Len(q) : i < j => q[i] < q[j])
  /\ [](\A p \in 1 .. MaxPackets : TimesReceived(p) <= 1)
  /\ \A p \in 1 .. MaxPackets : \A f \in Forwarders :
        SentToForwarder(p, f) ~> (InSeq(p, link.atForwarder[f]) /\ TimesReceived(p) = 1)
  /\ \A p \in 1 .. MaxPackets : \A c \in Clients :
        SentToClient(p, c) ~> (InSeq(p, link.atClient[c]) /\ TimesReceived(p) = 1)

\* the forwarder transport has received two packets of its client, in the
\* order sent, and the client has received the packet sent in between
C27_Witness ==
  /\ link.atForwarder[1] = <<1, 3>>
  /\ link.atClient[1] = <<2>>
  /\ link.forwarder[1] = 1
  /\ link.peer[1] = 1

\* this step closes forwarder transport f
Closes(f) ==
  /\ calls' # <<>>
  /\ calls'[1].op = "doClose"
  /\ calls'[1].arg[1] = f
  /\ link' # link

\* this step is a send on client c or a doSend on forwarder transport f
SendsOnClient(c) ==
  calls' # <<>> /\ calls'[1].op = "send" /\ calls'[1].arg[1] = c /\ link' # link

SendsOnForwarder(f) ==
  calls' # <<>> /\ calls'[1].op = "doSend" /\ calls'[1].arg[1] = f /\ link' # link

\* C28: when the forwarder transport a client is connected to becomes CLOSED
\* the client disconnects: its forwarder reference and the forwarder's peer
\* reference are null and the subscription is released; from then on a send on
\* either side posts nothing
C28_ClosedDisconnects ==
  /\ [][\A f \in Forwarders : \A c \in Clients :
          (Closes(f) /\ link.forwarder[c] = f) =>
             /\ link'.state[f] = "CLOSED"
             /\ link'.forwarder[c] = NoTransport
             /\ link'.conn[c] = NoTransport
             /\ link'.peer[f] = NoTransport]_vars
  /\ [](\A f \in Forwarders :
          link.state[f] = "CLOSED" =>
             /\ link.peer[f] = NoTransport
             /\ \A c \in Clients : link.forwarder[c] # f /\ link.conn[c] # f)
  /\ [][\A c \in Clients :
          (SendsOnClient(c) /\ link.forwarder[c] = NoTransport) =>
             /\ link'.loop = link.loop
             /\ link'.atForwarder = link.atForwarder
             /\ link'.atClient = link.atClient]_vars
  /\ [][\A f \in Forwarders :
          (SendsOnForwarder(f) /\ link.state[f] = "CLOSED") =>
             /\ link'.loop = link.loop
             /\ link'.atForwarder = link.atForwarder
             /\ link'.atClient = link.atClient]_vars

\* the forwarder transport of a connected client was closed, and a packet
\* handed to its doSend afterwards went nowhere
C28_Witness ==
  /\ calls # <<>>
  /\ calls[1].op = "doSend"
  /\ ~calls[1].flag
  /\ link.state[calls[1].arg[1]] = "CLOSED"
  /\ link.atClient[1] # <<>>
  /\ link.forwarder[1] = NoTransport
  /\ link.loop = <<>>

\* the last two updates were add(name, f, c) and then remove(name, f)
AddThenRemove ==
  /\ calls # <<>>
  /\ calls[1].op = "fibUpdate"
  /\ calls[1].hop # <<>>
  /\ calls[1].arg[1].action = REMOVE_NEXTHOP
  /\ calls[1].hop[1].action = ADD_NEXTHOP
  /\ calls[1].hop[1].name = calls[1].arg[1].name
  /\ calls[1].hop[1].faceId = calls[1].arg[1].faceId

\* the last two updates were the same add
AddTwice ==
  /\ calls # <<>>
  /\ calls[1].op = "fibUpdate"
  /\ calls[1].hop # <<>>
  /\ calls[1].arg[1].action = ADD_NEXTHOP
  /\ calls[1].hop = calls[1].arg

\* the FIB before the earlier of the last two updates
FibBefore == calls[1].pre[1]

NextHopFaces(hops) == {h[1] : h \in hops}

\* the next hops of prefix p in FIB t, none when it has no entry
NextHopsIn(t, p) == IF p \in DOMAIN t THEN t[p] ELSE {}

\* C29 as stated: add(name, f, c) followed by remove(name, f) leaves the FIB
\* as it was before the add, whatever the FIB was, and the same add twice is
\* the same as once
C29_AddRemoveIsNoOp ==
  /\ AddThenRemove => fib = FibBefore
  /\ AddTwice => fib = calls[1].ret[1]

\* C29: add(name, f, c) followed by remove(name, f) leaves the FIB as it was
\* before the add if f was not a next hop of name; if it was, that next hop is
\* gone and everything else is as before; the same add twice is the same as
\* once; the next hops of an entry stay unique by face
C29_AddRemoveRemovesFace ==
  /\ AddThenRemove =>
       LET u == calls[1].arg[1]
       IN  /\ \A p \in FibNames \ {u.name} : NextHopsIn(fib, p) = NextHopsIn(FibBefore, p)
           /\ DOMAIN fib \ {u.name} = DOMAIN FibBefore \ {u.name}
           /\ NextHopsIn(fib, u.name) = {h \in NextHopsIn(FibBefore, u.name) : h[1] # u.faceId}
           /\ u.faceId \notin NextHopFaces(NextHopsIn(FibBefore, u.name)) => fib = FibBefore
  /\ AddTwice => fib = calls[1].ret[1]
  /\ \A p \in DOMAIN fib : Cardinality(NextHopFaces(fib[p])) = Cardinality(fib[p])

\* face 3 was a next hop of the name beside face 4 before add and remove of
\* face 3: afterwards face 4 is the only next hop
C29_Witness ==
  /\ AddThenRemove
  /\ calls[1].arg[1].faceId = 3
  /\ NextHopFaces(NextHopsIn(FibBefore, calls[1].arg[1].name)) = {3, 4}
  /\ NextHopFaces(NextHopsIn(fib, calls[1].arg[1].name)) = {4}

\* the strategy name of an instance name, without its version component
RequestedStrategy(n) ==
  IF LastVersionAt(n) = 0 THEN n ELSE SubSeq(n, 1, LastVersionAt(n) - 1)

\* C30: find never returns an entry of a different strategy: the name of the
\* entry without its version component is the strategy name asked for without
\* its version component
C30_FindSameStrategy ==
  (Found /\ calls[1].ret # RegistryEnd) =>
     DropLast(calls[1].ret) = RequestedStrategy(calls[1].arg)

\* C31: parseInstanceName finds a version in every name that makeInstanceName
\* returns for a versioned strategy name, also when the only version component
\* of the name is its first component
C31_MadeNameParsesWithVersion ==
  MadeName => parseInstanceName(calls[1].ret)[2] # <<>>

C33_PairingSymmetric ==
  \A c \in Clients : \A f \in Forwarders :
     (link.forwarder[c] = f) <=> (link.peer[f] = c)

\* this step runs a task that delivers a packet to forwarder transport f or to
\* client c
DeliversToForwarder(f) == link'.atForwarder[f] # link.atForwarder[f]

DeliversToClient(c) == link'.atClient[c] # link.atClient[c]

\* C34: no packet is delivered upward by a transport that is gone: a posted
\* task does not call receive on a forwarder transport that is CLOSED and does
\* not run the receive callback of a client that has been destroyed or
\* disconnected
C34_NoDeliveryAfterGone ==
  [][/\ \A f \in Forwarders : DeliversToForwarder(f) => link.state[f] # "CLOSED"
     /\ \A c \in Clients :
          DeliversToClient(c) => (link.alive[c] /\ link.forwarder[c] # NoTransport)]_vars

\* C35: at most one asynchronous write is outstanding, while connected it is
\* for the head of the transmission queue, block sequences are written in the
\* order they were passed to send, and handleAsyncWrite erases only an
\* element that is still in the queue.
WritesOutstanding ==
  {o.item : o \in {stream.pending[i] : i \in 1 .. Len(stream.pending)}
                    \cup {stream.ready[i] : i \in 1 .. Len(stream.ready)}}

C35_OneWriteOutstanding == Outstanding(stream, "write") <= 1

C35_WriteIsForHead ==
  \A i \in 1 .. Len(stream.pending) :
    stream.pending[i].kind = "write" =>
      /\ stream.transmissionQueue # <<>>
      /\ stream.pending[i].item = Head(stream.transmissionQueue)

C35_WrittenInOrder ==
  \A i, j \in 1 .. Len(stream.written) : i < j => stream.written[i] < stream.written[j]

Erases ==
  /\ calls # <<>>
  /\ calls[1].op = "handleAsyncWrite"
  /\ calls[1].ret = <<"ok">>
  /\ calls[1].flag

C35_ErasesQueued == Erases => calls[1].ok

C35_OneWriteForHeadInOrder ==
  /\ C35_OneWriteOutstanding
  /\ C35_WriteIsForHead
  /\ C35_WrittenInOrder
  /\ C35_ErasesQueued

\* C36: while the transport is connected and its socket is open, the
\* transmission queue is never left non-empty with no write outstanding, so
\* every block sequence passed to send is eventually written.
C36_QueuedIsBeingWritten ==
  (stream.open /\ stream.isConnected /\ stream.transmissionQueue # <<>>)
    => Outstanding(stream, "write") >= 1

\* C37: a connection attempt is resolved once: the connect-timeout handler
\* does not close a transport that connectHandler has connected, and a connect
\* call made while a connect is in progress starts no timer and no socket
\* connect.
TimeoutCloses ==
  /\ calls # <<>>
  /\ calls[1].op = "connectTimeoutHandler"
  /\ calls[1].ret = <<"ok">>

ConnectsAgain ==
  /\ calls # <<>>
  /\ calls[1].op = "connect"
  /\ calls[1].ret = <<"again">>

C37_TimeoutSparesConnected == TimeoutCloses => ~calls[1].flag

C37_SecondConnectStartsNothing == ConnectsAgain => calls[1].post = calls[1].pre

C37_ResolvedOnce == C37_TimeoutSparesConnected /\ C37_SecondConnectStartsNothing

\* C38: at most one asynchronous receive is outstanding on the input buffer,
\* nothing is delivered to the receive callback while m_isReceiving is false,
\* every receive is started with at least one free byte in the buffer, and
\* the elements of the stream are delivered once each, in stream order.
Delivers ==
  /\ calls # <<>>
  /\ calls[1].op = "handleAsyncReceive"
  /\ stream.delivered # calls[1].hop

C38_OneReceiveOutstanding == Outstanding(stream, "receive") <= 1

C38_DeliversWhileReceiving == Delivers => calls[1].sat

C38_ReceiveHasRoom ==
  \A i \in 1 .. Len(stream.pending) :
    stream.pending[i].kind = "receive" =>
      stream.pending[i].item \in 0 .. MAX_NDN_PACKET_SIZE - 1

C38_DeliveredInStreamOrder ==
  \A i \in 1 .. Len(stream.delivered) : stream.delivered[i] = i

C38_ReceivesOneAtATime ==
  /\ C38_OneReceiveOutstanding
  /\ C38_DeliversWhileReceiving
  /\ C38_ReceiveHasRoom
  /\ C38_DeliveredInStreamOrder

\* C39: every table size and every packet counter of the general status is
\* the main forwarder's value plus the sum of the workers' values, each
\* table counted once.
RECURSIVE SumOver(_, _, _)
SumOver(forwarders, f, i) ==
  IF i > Len(forwarders) THEN 0 ELSE forwarders[i][f] + SumOver(forwarders, f, i + 1)

Collected == calls # <<>> /\ calls[1].op = "collectGeneralStatus"

C39_StatusSumsEachOnce ==
  Collected => \A f \in StatusFields : calls[1].ret[1][f] = SumOver(calls[1].arg, f, 1)

\* C39, for everything but the FIB: the sums are exact
C39_OthersSumEachOnce ==
  Collected =>
    \A f \in StatusFields \ {"nFib"} : calls[1].ret[1][f] = SumOver(calls[1].arg, f, 1)

\* this step is a call of the Policy operation op
Called(op) == calls' # <<>> /\ calls'[1].op = op

\* C40: setPmLimit(n) changes only the prefix-match limit and evicts only
\* from the prefix-match view, setEmLimit(n) changes only the exact-match
\* limit and evicts only from the exact-match view; neither changes the
\* general limit or the other view's limit or contents; setLimit(n) changes
\* only the general limit and evicts from both views.
C40_LimitSettersFrame ==
  [][/\ Called("setPmLimit") =>
          /\ store'.pmLimit = calls'[1].arg[2]
          /\ store'.limit = store.limit
          /\ store'.emLimit = store.emLimit
          /\ store'.tableExact = store.tableExact
          /\ store'.queueExact = store.queueExact
          /\ store'.table \subseteq store.table
          /\ Cardinality(store'.table) <= Min(store.limit, store'.pmLimit)
     /\ Called("setEmLimit") =>
          /\ store'.emLimit = calls'[1].arg[2]
          /\ store'.limit = store.limit
          /\ store'.pmLimit = store.pmLimit
          /\ store'.table = store.table
          /\ store'.queue = store.queue
          /\ store'.tableExact \subseteq store.tableExact
          /\ Cardinality(store'.tableExact) <= Min(store.limit, store'.emLimit)
     /\ Called("setLimit") =>
          /\ store'.limit = calls'[1].arg[2]
          /\ store'.pmLimit = store.pmLimit
          /\ store'.emLimit = store.emLimit
          /\ store'.table \subseteq store.table
          /\ store'.tableExact \subseteq store.tableExact
          /\ Cardinality(store'.table) <= store'.limit
          /\ Cardinality(store'.tableExact) <= store'.limit]_vars

\* setPmLimit(1) has just evicted one of two entries from the prefix-match
\* view; the exact-match view still holds both
C40_Witness ==
  /\ cfg.dualCs
  /\ calls # <<>>
  /\ calls[1].op = "setPmLimit"
  /\ calls[1].arg[2] = 1
  /\ calls[1].ret = <<2, 2>>
  /\ store.limit = 2
  /\ store.emLimit = 2
  /\ Cardinality(store.table) = 1
  /\ Cardinality(store.tableExact) = 2

====
